---------------------------- MODULE Spec2Model ----------------------------
(***************************************************************************)
(* AutEBook: the incremental sync pass (updater/mod.rs, get_book), the     *)
(* chapter content update of the RoyalRoad source (source/royalroad.rs)    *)
(* and the shared fetch layer (updater/native/request.rs).                 *)
(*                                                                         *)
(* Two specifications share the module:                                    *)
(*   Spec       one sync pass of one book, from the caller's entry to the  *)
(*              hand-over of the book to the archive writer;               *)
(*   SpecFetch  the workers' GET requests through send_get_request_rec,    *)
(*              with the shared BOUNCE counter and the keyed rate limiter. *)
(***************************************************************************)
EXTENDS Integers, Sequences, FiniteSets, TLC

(***************************************************************************)
(* Bounds of the model.                                                    *)
(***************************************************************************)
\* Len(remote index) + Len(current book) of the enumerated inputs.
MaxChapters == 4

\* Number of get_text / get_bytes calls the workers make in one behaviour.
MaxRequests == 2

\* Number of book files update_books is given.
MaxBooks == 2

\* Number of tokens of the HTML fragments given to the sanitizer.
MaxFragmentLen == 4

\* Number of chapters of the books written to and read from an archive.
MaxEpubChapters == 2

\* Number of times a book is written and read back.
MaxRounds == 2

\* The width image::resize asks for.
ResizeWidth == 600

\* Number of image URLs of a book, and of times its images are written.
MaxImages == 2
MaxWrites == 2

\* Passes of update() made over one book file, one after the other.
MaxPasses == 2

(***************************************************************************)
(* Program constants.                                                      *)
(***************************************************************************)
\* Quota::per_second(2): cells replenished per second and host.
QuotaPerSecond == 2
\* allow_burst(1): cells that can be taken at once.
Burst == 1
\* `bounce <= 10`: the last bounce level at which a 429 is retried.
MaxBounce == 10
\* `8 * 2_u64.pow(bounce)`: the base of the backoff sleep, in seconds.
BackoffBase == 8
\* BOUNCE is an AtomicU8: fetch_add wraps above u8::MAX.
U8Max == 255
\* StatusCode::TOO_MANY_REQUESTS.
TOO_MANY_REQUESTS == 429
\* u16::MAX, the largest count UpdateResult::Updated(u16) can carry.
U16Max == 65535

(***************************************************************************)
(* Option<T>: None is the empty tuple, Some(x) the one-element tuple.      *)
(***************************************************************************)
None == << >>
Some(x) == << x >>
IsSome(o) == o # None

(***************************************************************************)
(* Input domains.  Chapter identifiers are the site's numeric chapter ids  *)
(* (RoyalRoadChapter.id), dates are points in time.                        *)
(***************************************************************************)
Ids == {1, 2, 3}
Dates == {1, 2}
RemoteCover == "remote-cover"

\* RoyalRoadChapter::to_chapter: a chapter of the remote index has no content.
to_chapter(id, date) ==
    [identifier |-> id, date_published |-> date, content |-> None,
     authors_note_start |-> None, authors_note_end |-> None]

\* Chapter::extract_from_epub: a chapter recovered from the existing archive.
\* Its content and notes are whatever the selectors found (None for an
\* absent or empty element).
extract_from_epub(id, date, content) ==
    [identifier |-> id, date_published |-> date, content |-> content,
     authors_note_start |-> IF IsSome(content) THEN Some("old-note") ELSE None,
     authors_note_end |-> None]

\* Mutant: a derived PartialEq, comparing every field.
ChapterEq_Derived(a, b) == a = b

\* impl PartialEq for Chapter: equality by identifier only.
ChapterEq(a, b) == a.identifier = b.identifier

\* Vec::contains with that equality.
Contains(chapters, e) == \E i \in 1..Len(chapters) : ChapterEq(chapters[i], e)

InjectiveIdSeqs(n) ==
    {s \in [1..n -> Ids] : \A i, j \in 1..n : i # j => s[i] # s[j]}

\* The chapter lists the site can serve: no content, pairwise distinct ids.
RemoteChapterLists(n) ==
    {[i \in 1..n |-> to_chapter(ids[i], ds[i])] :
        ids \in InjectiveIdSeqs(n), ds \in [1..n -> Dates]}

\* The chapter lists Book::from_path can return: pairwise distinct ids, each
\* chapter with or without content.
CurrentChapterLists(n) ==
    {[i \in 1..n |-> extract_from_epub(ids[i], ds[i], cs[i])] :
        ids \in InjectiveIdSeqs(n), ds \in [1..n -> Dates],
        cs \in [1..n -> {None, Some("old")}]}

\* A remote index with more chapters than a u16 can count, all of them new.
BigRemote == [i \in 1..(U16Max + 1) |-> to_chapter(i, 1)]

\* The page get_text returns for a chapter url, as update_chapter_content
\* reads it: the three selectors' results.
Pages ==
    { [content |-> Some("new"), authors_note_start |-> Some("new-note"),
       authors_note_end |-> None],
      [content |-> Some("new"), authors_note_start |-> None,
       authors_note_end |-> Some("new-note")],
      [content |-> None, authors_note_start |-> None, authors_note_end |-> None] }

(***************************************************************************)
(* Result values.                                                          *)
(***************************************************************************)
UpToDate == [kind |-> "UpToDate", count |-> 0]
Updated(n) == [kind |-> "Updated", count |-> n]
Pending == [status |-> "pending", error |-> "", update |-> UpToDate]
Err(e) == [status |-> "err", error |-> e, update |-> UpToDate]
Ok(u) == [status |-> "ok", error |-> "", update |-> u]

VARIABLES
    \* ---- inputs of the sync pass (never changed by it)
    caller,                 \* "create" | "update"
    remote,                 \* the chapter list the site serves
    current_in,             \* Option<Book>: the caller's current book
    \* ---- get_book
    pc,                     \* position in the pass
    fetched_book,           \* Book fetched without chapter content
    current_book,           \* Book being reconciled
    chapter_to_update_ids,  \* HashSet of identifiers
    nb_new_chapter,         \* the u16 count
    idx,                    \* position of the for_each over current_book.chapters
    result,                 \* Result<(Book, UpdateResult)> of get_book
    written,                \* Option<Book>: what epub::write was given
    final,                  \* what the caller returns
    \* ---- observation of the pass
    attempted,              \* ids update_chapter_content was called for
    requested,              \* ids whose content was asked from the fetch layer
    fetch_failed,           \* ids whose update_chapter_content returned Err
    delivered               \* ids whose content the fetch layer delivered

syncVars == << caller, remote, current_in, pc, fetched_book, current_book,
               chapter_to_update_ids, nb_new_chapter, idx, result, written,
               final, attempted, requested, fetch_failed, delivered >>

VARIABLES
    \* ---- the fetch layer (statics of send_get_request_rec)
    BOUNCE,                 \* AtomicU8, shared by all workers
    limiter,                \* RATE_LIMITER: per host, ms until the next cell
    \* ---- each worker's call of send_get_request_rec
    wpc,                    \* "idle" | "enter" | "limiter" | "called"
    url,                    \* the url of the worker's request
    bounce,                 \* the local `bounce` loaded on entry
    slept,                  \* seconds of the backoff sleep of this entry
    waited,                 \* the limiter loop slept at least once
    outcome,                \* Result<Body> of the request that returned last
    started,                \* requests begun so far
    \* ---- observation of the sends
    since,                  \* per host, ms since the last send (saturating)
    min_gap,                \* smallest time between two sends to one host
    attempts                \* per worker, the sends of its request so far

fetchVars == << BOUNCE, limiter, wpc, url, bounce, slept, waited,
                outcome, started, since, min_gap, attempts >>

VARIABLES
    \* ---- the driver (update_books), per book file
    archive,                \* what is on disk at the path
    bpc,                    \* "todo" | "selected" | "updated" | "reported"
    provider,               \* the WebnovelProvider source::from_path built
    update_result,          \* the UpdateResult of source.update(path)
    file,                   \* "kept" | "overwritten": the file at the path
    failures,               \* the failures met while the book was processed
    reported                \* what update_books printed or did for it

driverVars == << archive, bpc, provider, update_result, file, failures,
                 reported >>

VARIABLES
    \* ---- the sanitizer (clean_html)
    fragment,               \* the HTML given to clean_html, as tokens
    cleaned,                \* Option: clean_html(fragment)
    recleaned               \* Option: clean_html(clean_html(fragment))

cleanVars == << fragment, cleaned, recleaned >>

VARIABLES
    \* ---- the archive (epub::write, Book::from_path)
    ebook,                  \* the Book in memory
    epub_file,              \* the archive on disk: its entries and its package
    epc,                    \* "book": a Book is in memory | "file": it was written
    rounds,                 \* writes done so far
    written_book            \* the Book the last write was given

epubVars == << ebook, epub_file, epc, rounds, written_book >>

VARIABLES
    \* ---- the images (the image loop of write, Book::download_image)
    book_images,            \* the image URLs of the book, in the order of the book
    pending,                \* the URLs of the HashSet not yet visited
    image_filenames,        \* the file names of the images written
    disambiguation_integer, \* the next prefix
    assigned,               \* per URL visited: its file name, whether written
    cache,                  \* the cached inline images of the book
    last_download,          \* what the last download_image found and did
    writes                  \* writes of the book begun

imageVars == << book_images, pending, image_filenames, disambiguation_integer,
                assigned, cache, last_download, writes >>

VARIABLES
    \* ---- image::resize
    picture,                \* the image fetched
    resized_picture,        \* what resize returned: None before, and for an Err
    rpc                     \* "fetched" | "done"

resizeVars == << picture, resized_picture, rpc >>

VARIABLES
    \* ---- the source of the book and the passes made over it
    last_time_published,    \* Option: RoyalRoad.last_time_published; None for a
                            \* source that keeps the trait's already_up_to_date
    pass                    \* the number of the pass under way

passVars == << last_time_published, pass >>

VARIABLES
    \* ---- the workers of update_books and the cache directory
    file_ids,               \* per book file, the id Book::from_path reads from it
    archive_images,         \* per book file, the image resources of the archive
    upc,                    \* per book file, where its worker is
    cache_dir               \* per book id, the files of {cache}/{id}/images

ownerVars == << file_ids, archive_images, upc, cache_dir >>

vars == << syncVars, fetchVars, driverVars, cleanVars, epubVars, imageVars, resizeVars,
          passVars, ownerVars >>

\* What an action of one component leaves alone of the others.
notSyncVars == << fetchVars, driverVars, cleanVars, epubVars, imageVars, resizeVars,
    passVars, ownerVars >>
notFetchVars == << syncVars, driverVars, cleanVars, epubVars, imageVars, resizeVars,
    passVars, ownerVars >>
notDriverVars == << syncVars, fetchVars, cleanVars, epubVars, imageVars, resizeVars,
    passVars, ownerVars >>
notCleanVars == << syncVars, fetchVars, driverVars, epubVars, imageVars, resizeVars,
    passVars, ownerVars >>
notEpubVars == << syncVars, fetchVars, driverVars, cleanVars, imageVars, resizeVars,
    passVars, ownerVars >>
notImageVars == << syncVars, fetchVars, driverVars, cleanVars, epubVars, resizeVars,
    passVars, ownerVars >>
notOwnerVars == << syncVars, fetchVars, driverVars, cleanVars, epubVars, imageVars,
    resizeVars, passVars >>
notResizeVars == << syncVars, fetchVars, driverVars, cleanVars, epubVars, imageVars,
    passVars, ownerVars >>

NoBook == [cover_url |-> "", chapters |-> << >>]

SmallInputs ==
    { << r, c >> \in (UNION {RemoteChapterLists(n) : n \in 0..Cardinality(Ids)})
                 \X ({None} \cup
                     {Some([cover_url |-> "", chapters |-> cs]) :
                        cs \in UNION {CurrentChapterLists(n) :
                                        n \in 0..Cardinality(Ids)}}) :
        Len(r) + (IF IsSome(c) THEN Len(c[1].chapters) ELSE 0) <= MaxChapters }

\* get_book before its first statement.
SyncStart ==
    /\ pc = "start"
    /\ fetched_book = NoBook
    /\ current_book = NoBook
    /\ chapter_to_update_ids = {}
    /\ nb_new_chapter = 0
    /\ idx = 1
    /\ result = Pending
    /\ written = None
    /\ final = Pending
    /\ attempted = {}
    /\ requested = {}
    /\ fetch_failed = {}
    /\ delivered = {}

SyncInit ==
    /\ \E in \in SmallInputs \cup { << BigRemote, None >> } :
          /\ remote = in[1]
          /\ current_in = in[2]
    /\ caller \in (IF current_in = None THEN {"create", "update"} ELSE {"update"})
    /\ SyncStart

(***************************************************************************)
(* get_book, step by step.                                                 *)
(***************************************************************************)
\* Book::clone_without_chapters.
clone_without_chapters(book) == [book EXCEPT !.chapters = << >>]

\* Mutant: >= in place of > on date_published.
UpdatedChapterIds_Geq(fetched, current) ==
    { fetched[i].identifier : i \in
        { k \in 1..Len(fetched) :
            \E j \in 1..Len(current) :
                /\ current[j].identifier = fetched[k].identifier
                /\ fetched[k].date_published >= current[j].date_published } }

\* Identifiers of the chapters which already exist but have been updated:
\* same identifier, newer date_published.
UpdatedChapterIds(fetched, current) ==
    { fetched[i].identifier : i \in
        { k \in 1..Len(fetched) :
            \E j \in 1..Len(current) :
                /\ current[j].identifier = fetched[k].identifier
                /\ fetched[k].date_published > current[j].date_published } }

\* fetched_book.chapters.retain(|e| !current_book.chapters.contains(e)).
NewChapters(fetched, current) ==
    SelectSeq(fetched, LAMBDA e : ~Contains(current, e))

\* The identifiers of a chapter list.
IdsOf(chapters) == { chapters[i].identifier : i \in 1..Len(chapters) }

\* chapter_to_update_ids once the identifiers of the new chapters are inserted.
ChapterToUpdateIds(fetched, current) ==
    UpdatedChapterIds(fetched, current) \cup IdsOf(NewChapters(fetched, current))

\* Mutant: the truncating cast `len as u16`.
u16_try_from_Wrapping(n) == Some(n % (U16Max + 1))

\* u16::try_from(len): None when the length does not fit.
u16_try_from(n) == IF n <= U16Max THEN Some(n) ELSE None

\* RoyalRoad::update_chapter_content on `chapter`, `response` being what
\* request::get_text would return for chapter.url: None for Err, Some(page)
\* for Ok.  Gives the chapter afterwards, whether the fetch layer was asked,
\* and whether the call returned Ok.
update_chapter_content(chapter, response) ==
    IF IsSome(chapter.content)
    THEN [chapter |-> chapter, asked |-> FALSE, ok |-> TRUE]
    ELSE IF response = None
    THEN [chapter |-> chapter, asked |-> TRUE, ok |-> FALSE]
    ELSE [chapter |-> [chapter EXCEPT
                          !.content = response[1].content,
                          !.authors_note_start = response[1].authors_note_start,
                          !.authors_note_end = response[1].authors_note_end],
          asked |-> TRUE, ok |-> TRUE]

\* Mutant: the empty chapters are kept.
RetainWithContent_Keep(chapters) == chapters

\* current_book.chapters.retain(|c| c.content.is_some()).
RetainWithContent(chapters) == SelectSeq(chapters, LAMBDA c : IsSome(c.content))

\* The UpdateResult get_book returns for the count.
UpdateResultOf(n) == IF n > 0 THEN Updated(n) ELSE UpToDate

\* First position >= i of current_book.chapters that passes the filter of the
\* for_each (identifier in chapter_to_update_ids); Len + 1 when there is none.
NextToUpdate(chapters, ids, i) ==
    LET S == { k \in i..Len(chapters) : chapters[k].identifier \in ids }
    IN IF S = {} THEN Len(chapters) + 1
       ELSE CHOOSE k \in S : \A m \in S : k <= m

\* The latest date_published of a chapter list; None for an empty list.
MaxDatePublished(chapters) ==
    IF chapters = << >> THEN None
    ELSE Some(CHOOSE d \in { chapters[i].date_published : i \in 1..Len(chapters) } :
                 \A i \in 1..Len(chapters) : chapters[i].date_published <= d)

\* WebnovelSource::already_up_to_date.  The trait's default is false; RoyalRoad
\* compares the latest chapter date of the current book with the latest
\* pubDate of the RSS feed.
already_up_to_date(last, current) ==
    /\ IsSome(last)
    /\ IsSome(current)
    /\ IsSome(MaxDatePublished(current[1].chapters))
    /\ MaxDatePublished(current[1].chapters)[1] >= last[1]

\* The start of the pass.  update() returns UpToDate at once when the source
\* says the current book is up to date; otherwise, and for create(), get_book
\* does the initial metadata fetch of the book (fetch_without_chapter_content)
\* and chooses the current book.
FetchMetadata ==
    /\ UNCHANGED notSyncVars
    /\ pc = "start"
    /\ IF caller = "update" /\ already_up_to_date(last_time_published, current_in)
       THEN /\ final' = Ok(UpToDate)
            /\ pc' = "done"
            /\ UNCHANGED << fetched_book, current_book, result >>
       ELSE /\ \E ok \in BOOLEAN :
                 IF ok
                 THEN /\ fetched_book' = [cover_url |-> RemoteCover,
                                          chapters |-> remote]
                      /\ current_book' = IF current_in = None
                                         THEN clone_without_chapters(fetched_book')
                                         ELSE current_in[1]
                      /\ pc' = "diff"
                      /\ UNCHANGED result
                 ELSE /\ result' = Err("metadata")
                      /\ pc' = "returned"
                      /\ UNCHANGED << fetched_book, current_book >>
            /\ UNCHANGED final
    /\ UNCHANGED << caller, remote, current_in, chapter_to_update_ids,
                    nb_new_chapter, idx, written, attempted, requested,
                    fetch_failed, delivered >>

\* Mutant: the new chapters are put in front of the current ones.
append_chapters_Front(chapters, other) == other \o chapters

\* Vec::append: current_book.chapters.append(&mut fetched_book.chapters).
append_chapters(chapters, other) == chapters \o other

\* The diff of the two chapter lists, the append of the new chapters and the
\* checked cast of the count.
DiffChapters ==
    /\ UNCHANGED notSyncVars
    /\ pc = "diff"
    /\ chapter_to_update_ids' =
          ChapterToUpdateIds(fetched_book.chapters, current_book.chapters)
    /\ fetched_book' = [fetched_book EXCEPT !.chapters = << >>]
    /\ current_book' =
          [current_book EXCEPT !.chapters =
              append_chapters(@, NewChapters(fetched_book.chapters,
                                             current_book.chapters))]
    /\ LET n == u16_try_from(Cardinality(chapter_to_update_ids'))
       IN IF n = None
          THEN /\ result' = Err("too many new chapters")
               /\ pc' = "returned"
               /\ UNCHANGED nb_new_chapter
          ELSE /\ nb_new_chapter' = n[1]
               /\ pc' = "update"
               /\ UNCHANGED result
    /\ idx' = 1
    /\ UNCHANGED << caller, remote, current_in, written, final, attempted,
                    requested, fetch_failed, delivered >>

\* Mutant: the error is propagated with `?`.
ContinueAfter_Abort(r) == r.ok

\* Whether the for_each goes on after update_chapter_content returned `r`:
\* an Err is printed on the progress bar and the loop continues.
ContinueAfter(r) == TRUE

\* One iteration of the for_each over the chapters to update.
UpdateChapter ==
    /\ UNCHANGED notSyncVars
    /\ pc = "update"
    /\ LET k == NextToUpdate(current_book.chapters, chapter_to_update_ids, idx)
       IN /\ k <= Len(current_book.chapters)
          /\ \E response \in {None} \cup { Some(p) : p \in Pages } :
               LET r == update_chapter_content(current_book.chapters[k], response)
                   id == current_book.chapters[k].identifier
               IN /\ current_book' = [current_book EXCEPT !.chapters[k] = r.chapter]
                  /\ attempted' = attempted \cup {id}
                  /\ requested' = IF r.asked THEN requested \cup {id} ELSE requested
                  /\ fetch_failed' = IF r.ok THEN fetch_failed
                                     ELSE fetch_failed \cup {id}
                  /\ delivered' = IF r.asked /\ IsSome(r.chapter.content)
                                  THEN delivered \cup {id} ELSE delivered
                  /\ IF ContinueAfter(r)
                     THEN UNCHANGED << pc, result >>
                     ELSE /\ pc' = "returned"
                          /\ result' = Err("chapter")
          /\ idx' = k + 1
    /\ UNCHANGED << caller, remote, current_in, fetched_book,
                    chapter_to_update_ids, nb_new_chapter, written, final >>

\* After the loop: remove empty chapters, take the cover url, return.
Finish ==
    /\ UNCHANGED notSyncVars
    /\ pc = "update"
    /\ NextToUpdate(current_book.chapters, chapter_to_update_ids, idx)
          > Len(current_book.chapters)
    /\ current_book' = [cover_url |-> fetched_book.cover_url,
                        chapters |-> RetainWithContent(current_book.chapters)]
    /\ result' = Ok(UpdateResultOf(nb_new_chapter))
    /\ pc' = "returned"
    /\ UNCHANGED << caller, remote, current_in, fetched_book,
                    chapter_to_update_ids, nb_new_chapter, idx, written, final,
                    attempted, requested, fetch_failed, delivered >>

(***************************************************************************)
(* The callers of get_book: WebnovelProvider::create and ::update.         *)
(***************************************************************************)
\* Whether the caller hands the returned book to epub::write.
CallerWrites(c, res) ==
    /\ res.status = "ok"
    /\ (c = "create" \/ res.update.kind = "Updated")

CallerReturn ==
    /\ UNCHANGED notSyncVars
    /\ pc = "returned"
    /\ IF CallerWrites(caller, result)
       THEN \E writeOk \in BOOLEAN :
              /\ written' = Some(current_book)
              /\ final' = IF writeOk THEN result ELSE Err("write")
       ELSE /\ final' = result
            /\ UNCHANGED written
    /\ pc' = "done"
    /\ UNCHANGED << caller, remote, current_in, fetched_book, current_book,
                    chapter_to_update_ids, nb_new_chapter, idx, result,
                    attempted, requested, fetch_failed, delivered >>

(***************************************************************************)
(* The fetch layer: request::get_text / get_bytes over                     *)
(* send_get_request_rec, called by every worker of the pool.               *)
(***************************************************************************)
Workers == {"w1", "w2"}

\* The urls asked for: two hosts, and a string Url::parse rejects.
Urls == {"https://www.royalroad.com/fiction/1", "https://cdn.example/a.png",
         "no url"}

\* Url::parse(url)?.host(): None when the url does not parse.
HostOf(u) ==
    CASE u = "https://www.royalroad.com/fiction/1" -> Some("www.royalroad.com")
      [] u = "https://cdn.example/a.png" -> Some("cdn.example")
      [] OTHER -> None

Hosts == {"www.royalroad.com", "cdn.example"}

\* The statuses of the responses AGENT.get(url).call() gives when the
\* transport does not fail.
Statuses == {200, 404, TOO_MANY_REQUESTS}

\* Time is counted in milliseconds; the clock of the model advances by one
\* replenish interval.
IntervalMs == 1000 \div QuotaPerSecond
TickMs == IntervalMs

Min(a, b) == IF a < b THEN a ELSE b
Max(a, b) == IF a > b THEN a ELSE b

\* Mutant: the limiter lets every request through.
check_key_Open(debt) == TRUE

\* RATE_LIMITER.check_key(&host).is_ok(), `debt` being the time until the
\* host's theoretical arrival time (GCRA): a cell is granted when at most
\* Burst - 1 intervals are owed.
check_key(debt) == debt <= IntervalMs * (Burst - 1)

\* The host's state after a granted cell.
take_cell(debt) == debt + IntervalMs

\* `8 * 2_u64.pow(bounce.into())`.
backoff_secs(b) == BackoffBase * 2^b

\* `response.status() == StatusCode::TOO_MANY_REQUESTS && bounce <= 10`.
retries(status, b) == status = TOO_MANY_REQUESTS /\ b <= MaxBounce

\* Mutant: the counter is left alone on a non-429 response.
bounce_after_Kept(current, retry) ==
    IF retry THEN (current + 1) % (U8Max + 1) ELSE current

\* BOUNCE after the response: fetch_add(1) on a retry, swap(0) otherwise.
bounce_after(current, retry) ==
    IF retry THEN (current + 1) % (U8Max + 1) ELSE 0

\* A worker that is in no request holds no url.
NoUrl == ""

\* The Result<Body> a request ended with, and whether its last entry slept
\* the backoff delay.
NoOutcome ==
    [status |-> "pending", http |-> None, error |-> "", backed_off |-> FALSE]
OkBody(status, w) ==
    [status |-> "ok", http |-> Some(status), error |-> "",
     backed_off |-> slept[w] > 0]
ErrOutcome(e, w) ==
    [status |-> "err", http |-> None, error |-> e, backed_off |-> slept[w] > 0]

\* The sends of a request are counted only where a property speaks of them.
NotCounted == -1
CountSend(n) == IF n = NotCounted THEN NotCounted ELSE n + 1
CountReset(n) == IF n = NotCounted THEN NotCounted ELSE 0

\* Mutant: no sleep at the entry.
entry_sleep_Never(b) == 0

\* The sleep at the entry of send_get_request_rec, in seconds.
entry_sleep(b) == IF b > 0 THEN backoff_secs(b) ELSE 0

\* The statics and the workers before any request.
FetchStart ==
    /\ BOUNCE = 0
    /\ limiter = [h \in Hosts |-> 0]
    /\ wpc = [w \in Workers |-> "idle"]
    /\ url = [w \in Workers |-> NoUrl]
    /\ bounce = [w \in Workers |-> 0]
    /\ slept = [w \in Workers |-> 0]
    /\ waited = [w \in Workers |-> FALSE]
    /\ outcome = NoOutcome
    /\ started = 0
    /\ since = [h \in Hosts |-> IntervalMs]
    /\ min_gap = IntervalMs

FetchInit ==
    /\ FetchStart
    /\ attempts = [w \in Workers |-> NotCounted]

\* A worker calls get_text / get_bytes.
StartRequest(w) ==
    /\ UNCHANGED notFetchVars
    /\ wpc[w] = "idle"
    /\ started < MaxRequests
    /\ \E u \in Urls : url' = [url EXCEPT ![w] = u]
    /\ started' = started + 1
    /\ wpc' = [wpc EXCEPT ![w] = "enter"]
    /\ UNCHANGED << BOUNCE, limiter, bounce, slept, waited, outcome,
                    since, min_gap, attempts >>

\* The worker's call returns `res` to the caller of get_text / get_bytes: its
\* locals are gone.
Return(w, res) ==
    /\ outcome' = res
    /\ wpc' = [wpc EXCEPT ![w] = "idle"]
    /\ url' = [url EXCEPT ![w] = NoUrl]
    /\ bounce' = [bounce EXCEPT ![w] = 0]
    /\ slept' = [slept EXCEPT ![w] = 0]
    /\ waited' = [waited EXCEPT ![w] = FALSE]
    /\ attempts' = [attempts EXCEPT ![w] = CountReset(@)]

\* Entry of send_get_request_rec: load BOUNCE, sleep when it is above 0,
\* parse the url.
Enter(w) ==
    /\ UNCHANGED notFetchVars
    /\ wpc[w] = "enter"
    /\ IF HostOf(url[w]) = None
       THEN Return(w, ErrOutcome("url", w))
       ELSE /\ wpc' = [wpc EXCEPT ![w] = "limiter"]
            /\ bounce' = [bounce EXCEPT ![w] = BOUNCE]
            /\ slept' = [slept EXCEPT ![w] = entry_sleep(BOUNCE)]
            /\ waited' = [waited EXCEPT ![w] = FALSE]
            /\ UNCHANGED << outcome, url, attempts >>
    /\ UNCHANGED << BOUNCE, limiter, started, since, min_gap >>

\* One turn of `while RATE_LIMITER.check_key(&host).is_err() { sleep }`
\* that finds no cell: the worker sleeps and checks again.
LimiterWait(w) ==
    /\ UNCHANGED notFetchVars
    /\ wpc[w] = "limiter"
    /\ ~check_key(limiter[HostOf(url[w])[1]])
    /\ ~waited[w]
    /\ waited' = [waited EXCEPT ![w] = TRUE]
    /\ UNCHANGED << BOUNCE, limiter, wpc, url, bounce, slept, outcome,
                    started, since, min_gap, attempts >>

\* The check that takes a cell ends the loop, and AGENT.get(url).call()
\* sends the request.
Send(w) ==
    /\ UNCHANGED notFetchVars
    /\ wpc[w] = "limiter"
    /\ LET h == HostOf(url[w])[1]
       IN /\ check_key(limiter[h])
          /\ limiter' = [limiter EXCEPT ![h] = take_cell(@)]
          /\ min_gap' = Min(min_gap, since[h])
          /\ since' = [since EXCEPT ![h] = 0]
    /\ wpc' = [wpc EXCEPT ![w] = "called"]
    /\ attempts' = [attempts EXCEPT ![w] = CountSend(@)]
    /\ UNCHANGED << BOUNCE, url, bounce, slept, waited, outcome,
                    started >>

\* The call returns. An Err of call() (the transport failed, or the agent
\* turned the response into an error) ends the request through `?`; a 429
\* at a bounce of at most 10 bumps BOUNCE and re-enters; any other response
\* resets BOUNCE and its body is returned.
Respond(w) ==
    /\ UNCHANGED notFetchVars
    /\ wpc[w] = "called"
    /\ \/ /\ Return(w, ErrOutcome("transport", w))
          /\ UNCHANGED BOUNCE
       \/ \E r \in Statuses :
            /\ BOUNCE' = bounce_after(BOUNCE, retries(r, bounce[w]))
            /\ IF retries(r, bounce[w])
               THEN /\ wpc' = [wpc EXCEPT ![w] = "enter"]
                    /\ waited' = [waited EXCEPT ![w] = FALSE]
                    /\ UNCHANGED << outcome, url, bounce, slept, attempts >>
               ELSE Return(w, OkBody(r, w))
    /\ UNCHANGED << limiter, started, since, min_gap >>

\* Time passes.
Tick ==
    /\ UNCHANGED notFetchVars
    /\ \E h \in Hosts : limiter[h] > 0 \/ since[h] < IntervalMs
    /\ limiter' = [h \in Hosts |-> Max(limiter[h] - TickMs, 0)]
    /\ since' = [h \in Hosts |-> Min(since[h] + TickMs, IntervalMs)]
    /\ UNCHANGED << BOUNCE, wpc, url, bounce, slept, waited, outcome,
                    started, min_gap, attempts >>

\* No book file is given to the driver.
Books == 1..MaxBooks
DriverIdle ==
    /\ archive = << >>
    /\ bpc = << >>
    /\ provider = << >>
    /\ update_result = << >>
    /\ file = << >>
    /\ failures = << >>
    /\ reported = << >>

\* clean_html is not called.
CleanIdle ==
    /\ fragment = << >>
    /\ cleaned = << >>
    /\ recleaned = << >>

\* No archive is written or read.
EpubIdle ==
    /\ ebook = << >>
    /\ epub_file = << >>
    /\ epc = "idle"
    /\ rounds = 0
    /\ written_book = << >>

\* No image is written.
ImagesIdle ==
    /\ book_images = << >>
    /\ pending = {}
    /\ image_filenames = {}
    /\ disambiguation_integer = 0
    /\ assigned = << >>
    /\ cache = {}
    /\ last_download = << >>
    /\ writes = 0

\* No image is resized.
ResizeIdle ==
    /\ picture = << >>
    /\ resized_picture = << >>
    /\ rpc = "idle"

\* The components other than the sync pass, the fetch layer, the driver,
\* the sanitizer: at rest.
\* A source with the trait's already_up_to_date, at its first pass.
PassIdle ==
    /\ last_time_published = None
    /\ pass = 1

\* update_books is given no book file, and the cache directory is empty.
OwnerIdle ==
    /\ file_ids = << >>
    /\ archive_images = << >>
    /\ upc = << >>
    /\ cache_dir = << >>

OthersIdle == EpubIdle /\ ImagesIdle /\ ResizeIdle /\ PassIdle /\ OwnerIdle

Init == SyncInit /\ FetchInit /\ DriverIdle /\ CleanIdle /\ OthersIdle

Next ==
    \/ FetchMetadata
    \/ DiffChapters
    \/ UpdateChapter
    \/ Finish
    \/ CallerReturn

Spec == Init /\ [][Next]_vars

\* The fetch layer on its own: the sync pass stays at its start, with no
\* book and an empty index.
InitFetch ==
    /\ SyncInit
    /\ remote = << >>
    /\ current_in = None
    /\ caller = "update"
    /\ FetchInit
    /\ DriverIdle
    /\ CleanIdle
    /\ OthersIdle

NextFetch ==
    \/ \E w \in Workers : StartRequest(w)
    \/ \E w \in Workers : Enter(w)
    \/ \E w \in Workers : LimiterWait(w)
    \/ \E w \in Workers : Send(w)
    \/ \E w \in Workers : Respond(w)
    \/ Tick

SpecFetch == InitFetch /\ [][NextFetch]_vars

(***************************************************************************)
(* Reference quantities of a pass, computed from its inputs alone.         *)
(***************************************************************************)
\* The chapters of the caller's current book (none when there is no book).
InChapters == IF current_in = None THEN << >> ELSE current_in[1].chapters

\* get_book has returned to its caller.
Returned == pc \in {"returned", "done"}

\* (a) identifiers present in both books, dated strictly later in the index.
DateAdvancedIds ==
    { id \in IdsOf(remote) \cap IdsOf(InChapters) :
        \E i \in 1..Len(remote), j \in 1..Len(InChapters) :
            /\ remote[i].identifier = id
            /\ InChapters[j].identifier = id
            /\ remote[i].date_published > InChapters[j].date_published }

\* (b) identifiers of the index that no chapter of current has.
UnknownIds == IdsOf(remote) \ IdsOf(InChapters)

ToRefreshCount == Cardinality(DateAdvancedIds \cup UnknownIds)

\* The chapter of a list with a given identifier (identifiers are distinct).
ChapterOf(chapters, id) ==
    chapters[CHOOSE i \in 1..Len(chapters) : chapters[i].identifier = id]

(***************************************************************************)
(* C1.  A pass that returns a result returns Updated(n) when n > 0 and     *)
(* UpToDate exactly when n = 0, n being the number of distinct identifiers *)
(* that are date-advanced or unknown to current; chapters are matched by   *)
(* identifier only.  The only passes without a result are those whose      *)
(* metadata fetch failed or whose count does not fit in the u16 (C7).      *)
(***************************************************************************)
C1_UpdatedCount ==
    Returned =>
        \/ /\ result.status = "ok"
           /\ result.update = IF ToRefreshCount > 0 THEN Updated(ToRefreshCount)
                              ELSE UpToDate
        \/ result.status = "err" /\ result.error = "metadata"
        \/ result.status = "err" /\ ToRefreshCount > U16Max

\* A pass with a new chapter and a date-advanced chapter that current holds
\* with content: the count is 2.
C1_Witness ==
    /\ pc = "done"
    /\ result.update = Updated(2)
    /\ Cardinality(DateAdvancedIds) = 1
    /\ Cardinality(UnknownIds) = 1
    /\ \E id \in DateAdvancedIds : IsSome(ChapterOf(InChapters, id).content)

(***************************************************************************)
(* C2.  Every chapter of current whose identifier is in to_refresh has its *)
(* content asked from the fetch layer, and after a pass in which every     *)
(* fetch delivered content its content is the fetched one.                 *)
(***************************************************************************)
C2_RefreshedChaptersFetched ==
    (Returned /\ result.status = "ok") =>
        /\ chapter_to_update_ids \subseteq requested
        /\ (requested = delivered =>
              \A i \in 1..Len(current_book.chapters) :
                 current_book.chapters[i].identifier \in chapter_to_update_ids
                    => current_book.chapters[i].content = Some("new"))

C4_ContentPresent ==
    /\ (Returned /\ result.status = "ok") =>
          \A i \in 1..Len(current_book.chapters) :
             IsSome(current_book.chapters[i].content)
    /\ IsSome(written) =>
          \A i \in 1..Len(written[1].chapters) :
             IsSome(written[1].chapters[i].content)

\* A book was written after a pass that lost a chapter to a failed fetch and
\* a chapter that current held without content.
C4_Witness ==
    /\ pc = "done"
    /\ IsSome(written)
    /\ Len(written[1].chapters) > 0
    /\ fetch_failed # {}
    /\ \E j \in 1..Len(InChapters) :
          /\ InChapters[j].content = None
          /\ InChapters[j].identifier \notin chapter_to_update_ids

(***************************************************************************)
(* C5 as stated.  A pass against an index with no new and no date-advanced *)
(* chapter returns UpToDate and the chapter list of the input current book,*)
(* unchanged.                                                              *)
(***************************************************************************)
C5_NoOpSyncUnchanged ==
    (Returned /\ result.status = "ok" /\ ToRefreshCount = 0) =>
        /\ result.update = UpToDate
        /\ current_book.chapters = InChapters

(***************************************************************************)
(* C5 amended.  Such a pass returns UpToDate, asks nothing from the fetch  *)
(* layer, and returns the chapters of current that have content, in the    *)
(* same order and with the same content; the chapters of current without   *)
(* content are dropped.                                                    *)
(***************************************************************************)
C5_NoOpSyncKeepsContent ==
    (Returned /\ result.status = "ok" /\ ToRefreshCount = 0) =>
        /\ result.update = UpToDate
        /\ requested = {}
        /\ current_book.chapters = SelectSeq(InChapters, LAMBDA c : c.content # None)

\* A no-op pass over a current book of several chapters, with and without
\* content, against an index that lists some of them.
C5_Witness ==
    /\ pc = "done"
    /\ ToRefreshCount = 0
    /\ result.update = UpToDate
    /\ Len(remote) > 0
    /\ Len(current_book.chapters) >= 2
    /\ Len(current_book.chapters) < Len(InChapters)

(***************************************************************************)
(* C6.  Whenever a pass returns Updated(n), n is the number of chapters of *)
(* the returned book minus the number of chapters of the input current     *)
(* book, plus the number of date-advanced chapters.                        *)
(***************************************************************************)
C6_MonotonicCount ==
    (Returned /\ result.status = "ok" /\ result.update.kind = "Updated") =>
        result.update.count =
            Len(current_book.chapters) - Len(InChapters)
               + Cardinality(DateAdvancedIds)

(***************************************************************************)
(* C7.  When the number of chapters to refresh does not fit in 16 bits the *)
(* pass fails as a whole: once the count is taken the pass has returned an *)
(* error, no chapter was fetched and nothing is written.                   *)
(***************************************************************************)
C7_OverflowFails ==
    (ToRefreshCount > U16Max /\ pc \notin {"start", "diff"}
       /\ result.error # "metadata") =>
        /\ Returned
        /\ result.status = "err"
        /\ result.error = "too many new chapters"
        /\ requested = {}
        /\ written = None
        /\ (pc = "done" => final.status = "err")

\* The pass over the index of 65536 new chapters has ended.
C7_Witness ==
    /\ pc = "done"
    /\ Cardinality(chapter_to_update_ids) = U16Max + 1
    /\ final.status = "err"
    /\ final.error = "too many new chapters"

(***************************************************************************)
(* The fetch layer under fair scheduling: time passes, and a worker whose  *)
(* limiter check would succeed gets to make it.                            *)
(***************************************************************************)
SpecFetchFair ==
    /\ SpecFetch
    /\ WF_fetchVars(Tick)
    /\ \A w \in Workers : WF_fetchVars(Send(w))

(***************************************************************************)
(* C8.  A request answered with 429 at every attempt ends in an error: no  *)
(* call of send_get_request_rec returns a 429 response as its Ok body.     *)
(***************************************************************************)
C8_RateLimitedNeverOk ==
    outcome.status = "ok" => outcome.http # Some(TOO_MANY_REQUESTS)

(***************************************************************************)
(* C9.  The step in which a request receives a response whose status is    *)
(* not 429 leaves the shared counter BOUNCE at 0.                          *)
(***************************************************************************)
C9_NonRateLimitedResets ==
    [][\A w \in Workers :
         (/\ wpc[w] = "called"
          /\ wpc'[w] = "idle"
          /\ outcome'.status = "ok"
          /\ outcome'.http # Some(TOO_MANY_REQUESTS)) => BOUNCE' = 0]_vars

\* The only request of the run was answered 429, slept the backoff delay on
\* re-entry, and was then answered 200: the counter is back at 0.
C9_Witness ==
    /\ started = 1
    /\ outcome.status = "ok"
    /\ outcome.http = Some(200)
    /\ outcome.backed_off
    /\ BOUNCE = 0

ReadBody(res, read_ok) ==
    IF res.status = "err"
    THEN [status |-> "err", http |-> None, error |-> res.error,
          names_url |-> FALSE]
    ELSE IF read_ok
         THEN [status |-> "ok", http |-> res.http, error |-> "",
               names_url |-> FALSE]
         ELSE [status |-> "err", http |-> None, error |-> "Broken link",
               names_url |-> TRUE]

\* get_text: read_to_string on the body.
get_text(res, read_ok) == ReadBody(res, read_ok)

\* get_bytes: read_to_vec on the body, limited to 100 MB.
get_bytes(res, read_ok) == ReadBody(res, read_ok)

\* The statuses get_text / get_bytes may answer with a body.
IsSuccessStatus(http) == http = Some(200)

(***************************************************************************)
(* C11.  Whatever the read of the body does, get_text and get_bytes return *)
(* an error naming the url when the request ended with a non-2xx status    *)
(* other than 429 or with a transport failure, and they return a body only *)
(* for a 2xx response.                                                     *)
(***************************************************************************)
C11_FailureNamesUrl ==
    outcome.status # "pending" =>
    \A read_ok \in BOOLEAN :
      \A r \in {get_text(outcome, read_ok), get_bytes(outcome, read_ok)} :
        /\ (outcome.status = "ok"
              /\ ~IsSuccessStatus(outcome.http)
              /\ outcome.http # Some(TOO_MANY_REQUESTS))
             => (r.status = "err" /\ r.names_url)
        /\ (outcome.status = "err" /\ outcome.error = "transport")
             => (r.status = "err" /\ r.names_url)
        /\ r.status = "ok" => IsSuccessStatus(r.http)

(***************************************************************************)
(* The driver: update_books over the book files, each one handled by       *)
(* source::from_path, WebnovelProvider::update and the match on its result.*)
(***************************************************************************)
\* What is at a path: an archive of a RoyalRoad book ("native"), a readable
\* archive without a supported source url ("foreign"), or a file EpubDoc
\* cannot open ("corrupt").
ArchiveKinds == {"native", "foreign", "corrupt"}

\* EpubDoc::new(path).is_ok(): the archive is well formed and the read met
\* no I/O error.
EpubDocOpens(kind, io_ok) == kind # "corrupt" /\ io_ok

\* source::from_path: get_url, then from_url, whose RoyalRoad::new fetches
\* and parses the RSS feed; every failure ends in the Unsupported provider.
from_path(kind, io_ok, rss_ok) ==
    IF EpubDocOpens(kind, io_ok) /\ kind = "native" /\ rss_ok
    THEN "RoyalRoad"
    ELSE "Unsupported"

\* The Result<(Book, UpdateResult)> get_book may return to update.
GetBookResults == {"Err", "UpToDate", "Updated"}

\* WebnovelProvider::update.  Unsupported::update answers Unsupported.  The
\* blanket impl reads the current book with Book::from_path(path).ok(): a
\* failed read gives None, already_up_to_date(None) is false and get_book
\* runs without a current book.  The book is written only for Updated.
update(prov, read_ok, up_to_date, gb, write_ok) ==
    IF prov = "Unsupported" THEN [result |-> "Unsupported", wrote |-> FALSE]
    ELSE IF read_ok /\ up_to_date THEN [result |-> "UpToDate", wrote |-> FALSE]
    ELSE IF gb = "Err" THEN [result |-> "Error", wrote |-> FALSE]
    ELSE IF gb = "UpToDate" THEN [result |-> "UpToDate", wrote |-> FALSE]
    ELSE IF write_ok THEN [result |-> "Updated", wrote |-> TRUE]
    ELSE [result |-> "Error", wrote |-> FALSE]

\* The arm of the match in update_books.
ReportOf(res, add_unsupported_to_ignore_file) ==
    CASE res = "Updated" -> "summary printed"
      [] res = "Unsupported" ->
           IF add_unsupported_to_ignore_file THEN "added to ignore file"
           ELSE "nothing"
      [] res = "UpToDate" -> "nothing"
      [] OTHER -> "error printed"

DriverInit ==
    /\ archive \in [Books -> ArchiveKinds]
    /\ bpc = [b \in Books |-> "todo"]
    /\ provider = [b \in Books |-> "none"]
    /\ update_result = [b \in Books |-> "none"]
    /\ file = [b \in Books |-> "kept"]
    /\ failures = [b \in Books |-> {}]
    /\ reported = [b \in Books |-> "none"]

\* source::from_path(path) for book b.
SelectSource(b) ==
    /\ UNCHANGED notDriverVars
    /\ bpc[b] = "todo"
    /\ \E io_ok, rss_ok \in BOOLEAN :
         /\ provider' = [provider EXCEPT ![b] = from_path(archive[b], io_ok, rss_ok)]
         /\ failures' = [failures EXCEPT ![b] =
               (IF EpubDocOpens(archive[b], io_ok) THEN {} ELSE {"archive"})
               \cup (IF EpubDocOpens(archive[b], io_ok) /\ archive[b] = "native"
                        /\ ~rss_ok
                     THEN {"metadata"} ELSE {})]
    /\ bpc' = [bpc EXCEPT ![b] = "selected"]
    /\ UNCHANGED << archive, update_result, file, reported >>

\* source.update(path) for book b.
UpdateBook(b) ==
    /\ UNCHANGED notDriverVars
    /\ bpc[b] = "selected"
    /\ \E io_ok, up_to_date, write_ok \in BOOLEAN, gb \in GetBookResults :
         LET read_ok == EpubDocOpens(archive[b], io_ok)
             r == update(provider[b], read_ok, up_to_date, gb, write_ok)
             ran == provider[b] = "RoyalRoad"
             in_get_book == ran /\ ~(read_ok /\ up_to_date)
         IN /\ update_result' = [update_result EXCEPT ![b] = r.result]
            /\ file' = [file EXCEPT ![b] = IF r.wrote THEN "overwritten" ELSE @]
            /\ failures' = [failures EXCEPT ![b] = @
                  \cup (IF ran /\ ~read_ok THEN {"archive"} ELSE {})
                  \cup (IF in_get_book /\ gb = "Err" THEN {"metadata"} ELSE {})
                  \cup (IF in_get_book /\ gb = "Updated" /\ ~write_ok
                        THEN {"write"} ELSE {})]
    /\ bpc' = [bpc EXCEPT ![b] = "updated"]
    /\ UNCHANGED << archive, provider, reported >>

\* The match on the result, and bar.inc(1).
Report(b) ==
    /\ UNCHANGED notDriverVars
    /\ bpc[b] = "updated"
    /\ \E flag \in BOOLEAN :
         reported' = [reported EXCEPT ![b] = ReportOf(update_result[b], flag)]
    /\ bpc' = [bpc EXCEPT ![b] = "reported"]
    /\ UNCHANGED << archive, provider, update_result, file, failures >>

\* The driver on its own: no sync pass and no request is modelled in detail.
InitDriver ==
    /\ SyncInit
    /\ remote = << >>
    /\ current_in = None
    /\ caller = "update"
    /\ FetchInit
    /\ DriverInit
    /\ CleanIdle
    /\ OthersIdle

NextDriver ==
    \/ \E b \in Books : SelectSource(b)
    \/ \E b \in Books : UpdateBook(b)
    \/ \E b \in Books : Report(b)

SpecDriver == InitDriver /\ [][NextDriver]_vars

(***************************************************************************)
(* C12.  A book whose archive could not be read, whose metadata could not  *)
(* be fetched or whose archive could not be written ends with the result   *)
(* Error and its file is left as it was; and a book not yet handled can    *)
(* always be taken up, whatever the results of the others.                 *)
(***************************************************************************)
C12_FailureIsError ==
    /\ \A b \in Books :
          (bpc[b] \in {"updated", "reported"} /\ failures[b] # {}) =>
              /\ update_result[b] = "Error"
              /\ file[b] = "kept"
    /\ \A b \in Books : bpc[b] = "todo" => ENABLED SelectSource(b)

(***************************************************************************)
(* The sanitizer, clean_html.  An HTML fragment is a sequence of tokens    *)
(* (tags, entities, whitespace, text); every regex of clean_html matches   *)
(* whole tokens of this alphabet, so each replace_all is a pass over the   *)
(* sequence, leftmost match first, matches not overlapping.                *)
(***************************************************************************)
HtmlTokens ==
    { "<p>", "<p class=\"c\">", "</p>", " ", "&nbsp;", "txt",
      "<img src=\"u\">", "<img src=\"u\"/>", "<br>", "<br/>",
      "<span style=\"font-weight: normal\">", "<span style=\"\">", "</span>" }

Fragments(n) == UNION { [1..k -> HtmlTokens] : k \in 0..n }

\* The passes that rewrite one token: font-weight, class, img, br, &nbsp;.
\* No pass produces a token that an earlier pass rewrites.
CleanToken(t) ==
    CASE t = "<span style=\"font-weight: normal\">" -> "<span style=\"\">"
      [] t = "<p class=\"c\">" -> "<p>"
      [] t = "<h1 class=\"chapter-title\">" -> "<h1>"
      [] t \in {"<div class=\"chapter-content\">", "<div class=\"authors-note-start\">",
                "<div class=\"authors-note-end\">", "<div class=\"author-note-portlet\">"} -> "<div>"
      [] t = "<img src=\"../images/u\">" -> "<img src=\"../images/u\"/>"
      [] t = "<img src=\"u\">" -> "<img src=\"u\"/>"
      [] t = "<img src=\"b/u\">" -> "<img src=\"b/u\"/>"
      [] t = "<br>" -> "<br/>"
      [] t = "&nbsp;" -> " "
      [] OTHER -> t

\* Where the match of `<p[^>]*>\s*</p>` that starts at s[1] ends: 0 when
\* there is none.
EmptyParagraphEnd(s) ==
    IF s = << >> \/ s[1] \notin {"<p>", "<p class=\"c\">"} THEN 0
    ELSE LET after == { j \in 2..Len(s) : s[j] # " " }
         IN IF after = {} THEN 0
            ELSE LET k == CHOOSE j \in after : \A m \in after : j <= m
                 IN IF s[k] = "</p>" THEN k ELSE 0

\* One replace_all of the empty-paragraph regex.
RECURSIVE RemoveEmptyParagraphs(_)
RemoveEmptyParagraphs(s) ==
    IF s = << >> THEN << >>
    ELSE LET k == EmptyParagraphEnd(s)
         IN IF k > 0 THEN RemoveEmptyParagraphs(SubSeq(s, k + 1, Len(s)))
            ELSE << s[1] >> \o RemoveEmptyParagraphs(Tail(s))

\* clean_html: the token passes, then (after &nbsp; has become a space) the
\* single pass that removes the paragraphs holding only whitespace.
clean_html(s) == RemoveEmptyParagraphs([i \in 1..Len(s) |-> CleanToken(s[i])])

CleanInit ==
    /\ fragment \in Fragments(MaxFragmentLen)
    /\ cleaned = None
    /\ recleaned = None

\* clean_html(x).
CleanOnce ==
    /\ UNCHANGED notCleanVars
    /\ cleaned = None
    /\ cleaned' = Some(clean_html(fragment))
    /\ UNCHANGED << fragment, recleaned >>

\* clean_html on the result.
CleanAgain ==
    /\ UNCHANGED notCleanVars
    /\ cleaned # None
    /\ recleaned = None
    /\ recleaned' = Some(clean_html(cleaned[1]))
    /\ UNCHANGED << fragment, cleaned >>

InitSanitize ==
    /\ SyncInit
    /\ remote = << >>
    /\ current_in = None
    /\ caller = "update"
    /\ FetchInit
    /\ DriverIdle
    /\ CleanInit
    /\ OthersIdle

NextSanitize ==
    \/ CleanOnce
    \/ CleanAgain

SpecSanitize == InitSanitize /\ [][NextSanitize]_vars

(***************************************************************************)
(* C17.  clean_html is idempotent: cleaning the cleaned fragment gives the *)
(* cleaned fragment again.                                                 *)
(***************************************************************************)
C17_SanitizeIdempotent ==
    recleaned # None => recleaned = cleaned

(***************************************************************************)
(* The archive: epub::write and Book::from_path.                           *)
(*                                                                         *)
(* HTML is a sequence of tokens, as for the sanitizer.  A chapter document *)
(* is its <title>, its <meta> elements and the tokens of its <body>        *)
(* (the indentation the XML writer adds is left out).  A URL is the        *)
(* sequence of its path segments; the empty string is the empty sequence.  *)
(* An archive is the sequence of its entries, in the order they were       *)
(* written, and what its package document (content.opf) declares.          *)
(***************************************************************************)
EpubIds == {"11", "12", "13"}
EpubDates == {1, 2}
Uuids == {"uuid-a", "uuid-b"}
BookUrl == << "fiction", "42", "slug" >>

\* An image URL: where it lies and its last path segment.  A file name is
\* the integers format!("{n}_{name}") has put in front, and the rest.
FileName(prefix, name) == [prefix |-> prefix, name |-> name]
ImageUrl(dir, filename) == [dir |-> dir, file |-> filename]
CoverUrl == ImageUrl("https://h/covers", FileName(<< >>, "cover.jpg"))
\* String::new(): the cover_url of a parsed book.
EmptyUrl == ImageUrl("", FileName(<< >>, ""))

TitleOf(id) == CASE id = "11" -> "Chapter 11" [] id = "12" -> "Chapter 12" [] OTHER -> "Chapter 13"

\* The URL of a chapter of the site: /fiction/{book}/{slug}/chapter/{id}/{name}.
ChapterUrlOf(id) == << "fiction", "42", "slug", "chapter", id, "name" >>

\* Url::path_segments().nth(n) of a URL; None for the empty string, which
\* Url::parse rejects, and for a path with fewer segments.
PathSegment(u, n) == IF Len(u) > n THEN Some(u[n + 1]) ELSE None

\* get_id_from_url: the second path segment, a random UUID without one.
get_id_from_url(u, uuid) ==
    IF PathSegment(u, 1) # None THEN PathSegment(u, 1)[1] ELSE uuid

\* The chapter contents and notes a book is written with.
EpubContents ==
    { << "txt" >>,
      << "<p class=\"c\">", "txt", "</p>", "<img src=\"u\">" >> }
EpubNotes == { << "txt" >> }

\* A Chapter with all its fields (Chapter, with title and url).
EpubChapter(id, date, content, note_start, note_end) ==
    [identifier |-> id, date_published |-> date, title |-> TitleOf(id),
     url |-> ChapterUrlOf(id), content |-> content,
     authors_note_start |-> note_start, authors_note_end |-> note_end]

\* The chapters a fetched book can hold: content present or absent.
EpubChapters ==
    { EpubChapter(id, d, c, ns, ne) :
        id \in EpubIds, d \in EpubDates,
        c \in {None} \cup { Some(x) : x \in EpubContents },
        ns \in {None} \cup { Some(x) : x \in EpubNotes },
        ne \in {None} \cup { Some(x) : x \in EpubNotes } }

\* The books the fetch path builds: the id is get_id_from_url of the URL,
\* the chapters have pairwise distinct identifiers.
EpubBooks ==
    { [id |-> get_id_from_url(BookUrl, "uuid-a"), url |-> BookUrl,
       title |-> "Book", cover_url |-> CoverUrl, chapters |-> cs] :
        cs \in { s \in UNION { [1..k -> EpubChapters] : k \in 0..MaxEpubChapters } :
                   \A i, j \in 1..Len(s) : i # j => s[i].identifier # s[j].identifier } }

\* DateTime::to_rfc3339 and DateTime::parse_from_rfc3339.
to_rfc3339(d) == << "rfc3339", d >>
parse_from_rfc3339(s) ==
    IF Len(s) = 2 /\ s[1] = "rfc3339" THEN Some(s[2]) ELSE None

\* The src of an <img> token, None for any other token.
ImgSrc(t) ==
    CASE t \in {"<img src=\"u\">", "<img src=\"u\"/>"} ->
            Some(ImageUrl("https://h/a", FileName(<< >>, "u")))
      [] t \in {"<img src=\"b/u\">", "<img src=\"b/u\"/>"} ->
            Some(ImageUrl("https://h/b", FileName(<< >>, "u")))
      [] t \in {"<img src=\"../images/u\">", "<img src=\"../images/u\"/>"} ->
            Some(ImageUrl("../images", FileName(<< >>, "u")))
      [] OTHER -> None

\* image::extract_urls_from_html.
extract_urls_from_html(body) ==
    IF body = None THEN {}
    ELSE { ImgSrc(body[1][i])[1] :
             i \in { j \in 1..Len(body[1]) : ImgSrc(body[1][j]) # None } }

\* image::extract_file_name: the last path segment; an error for the empty
\* string, which is neither a URL nor a path with a file name.
extract_file_name(u) == IF u.file.name = "" THEN None ELSE Some(u.file)

\* image::replace_url_with_path: every src becomes ../images/{file name}.
replace_url_with_path(s) ==
    [i \in 1..Len(s) |->
        CASE s[i] \in {"<img src=\"u\">", "<img src=\"b/u\">"} ->
                "<img src=\"../images/u\">"
          [] s[i] \in {"<img src=\"u\"/>", "<img src=\"b/u\"/>"} ->
                "<img src=\"../images/u\"/>"
          [] OTHER -> s[i]]

\* The value chapter_html gives the generator <meta>, and the value
\* extract_from_epub compares it with.
GeneratorWritten == "text/html; charset=UTF-8"
GeneratorNative == "autebook"

\* A line of ./assets/messages.txt: a known "stolen content" message.
Boilerplate == "stolen-message"

\* for message in messages.split('\n') { content = content.replace(message, "") }.
remove_messages(s) == SelectSeq(s, LAMBDA t : t # Boilerplate)

\* The <div class=...> of an author's note in chapter_html: nothing for an
\* absent field.
NoteDiv(class, field) ==
    IF field = None THEN << >>
    ELSE << class >> \o replace_url_with_path(clean_html(field[1])) \o << "</div>" >>

\* The <div class="chapter-content"> of chapter_html: the messages are removed
\* from the cleaned content.
ContentDiv(class, field) ==
    IF field = None THEN << >>
    ELSE << class >> \o replace_url_with_path(remove_messages(clean_html(field[1])))
         \o << "</div>" >>

\* chapter_html: the document of one chapter.
chapter_html(chapter) ==
    [title |-> chapter.title,
     generator |-> GeneratorWritten,
     chapterurl |-> chapter.url,
     published |-> to_rfc3339(chapter.date_published),
     body |-> << "<h1 class=\"chapter-title\">", chapter.title, "</h1>" >>
              \o NoteDiv("<div class=\"authors-note-start\">", chapter.authors_note_start)
              \o ContentDiv("<div class=\"chapter-content\">", chapter.content)
              \o NoteDiv("<div class=\"authors-note-end\">", chapter.authors_note_end)]
\* The tokens that open a <div>.
DivOpens ==
    { "<div>", "<div class=\"chapter-content\">", "<div class=\"authors-note-start\">",
      "<div class=\"authors-note-end\">", "<div class=\"author-note-portlet\">" }

\* Where the <div> opened at body[k] is closed: the first </div> behind it
\* with as many <div> opened as closed in between; 0 when there is none.
CloseOf(body, k) ==
    LET Opened(j) == Cardinality({ m \in (k + 1)..(j - 1) : body[m] \in DivOpens })
        Closed(j) == Cardinality({ m \in (k + 1)..(j - 1) : body[m] = "</div>" })
        after == { j \in (k + 1)..Len(body) :
                     body[j] = "</div>" /\ Opened(j) = Closed(j) }
    IN IF after = {} THEN 0 ELSE CHOOSE j \in after : \A m \in after : j <= m

\* The inner HTML of every element that `open` starts, in document order.
InnerHtmlsOf(body, open) ==
    LET starts == { k \in 1..Len(body) : body[k] = open /\ CloseOf(body, k) > 0 }
        Ordered[n \in 0..Cardinality(starts)] ==
            IF n = 0 THEN << >>
            ELSE LET k == CHOOSE x \in starts :
                            Cardinality({ y \in starts : y < x }) = n - 1
                 IN Append(Ordered[n - 1], SubSeq(body, k + 1, CloseOf(body, k) - 1))
    IN Ordered[Cardinality(starts)]

\* QuickSelect::get_inner_html_of: the first match, None when it is empty.
get_inner_html_of(body, open) ==
    LET found == InnerHtmlsOf(body, open)
    IN IF found = << >> \/ found[1] = << >> THEN None ELSE Some(found[1])

\* str::replace(pat, ""): every occurrence, left to right; the empty pattern
\* changes nothing.
RECURSIVE RemoveAll(_, _)
RemoveAll(s, pat) ==
    IF pat = << >> \/ Len(s) < Len(pat) THEN s
    ELSE IF SubSeq(s, 1, Len(pat)) = pat
         THEN RemoveAll(SubSeq(s, Len(pat) + 1, Len(s)), pat)
         ELSE << s[1] >> \o RemoveAll(Tail(s), pat)

\* extract_from_fanficfare_generated_chapter: the notes are the last two
\* .author-note-portlet elements, the content is the whole body without
\* the FanFicFare title and without the text of the notes.
extract_from_fanficfare_generated_chapter(body, title) ==
    LET notes == InnerHtmlsOf(body, "<div class=\"author-note-portlet\">")
        n == Len(notes)
        authors_note_end == IF n >= 1 THEN Some(notes[n]) ELSE None
        authors_note_start == IF n >= 2 THEN Some(notes[n - 1]) ELSE None
        without_title ==
            RemoveAll(body, << "<h3 class=\"fff_chapter_title\">", title, "</h3>" >>)
        without_start ==
            IF authors_note_start = None THEN without_title
            ELSE RemoveAll(without_title, authors_note_start[1])
        without_end ==
            IF authors_note_end = None THEN without_start
            ELSE RemoveAll(without_start, authors_note_end[1])
    IN [content |-> IF body = << >> THEN None ELSE Some(without_end),
        authors_note_start |-> authors_note_start,
        authors_note_end |-> authors_note_end]

\* The test of the generator <meta> in Chapter::extract_from_epub.
was_generated_with_native_updater(xhtml) == xhtml.generator = GeneratorNative

\* Chapter::extract_from_epub on one chapter document; `now` stands in for
\* a date that cannot be read.
extract_from_xhtml(file_identifier, xhtml, now) ==
    LET date == parse_from_rfc3339(xhtml.published)
        segment == PathSegment(xhtml.chapterurl, 4)
        parts ==
            IF was_generated_with_native_updater(xhtml)
            THEN [content |-> get_inner_html_of(xhtml.body, "<div class=\"chapter-content\">"),
                  authors_note_start |->
                      get_inner_html_of(xhtml.body, "<div class=\"authors-note-start\">"),
                  authors_note_end |->
                      get_inner_html_of(xhtml.body, "<div class=\"authors-note-end\">")]
            ELSE extract_from_fanficfare_generated_chapter(xhtml.body, xhtml.title)
    IN [identifier |-> IF segment # None THEN segment[1] ELSE file_identifier,
        date_published |-> IF date # None THEN date[1] ELSE now,
        title |-> xhtml.title,
        url |-> xhtml.chapterurl,
        content |-> parts.content,
        authors_note_start |-> parts.authors_note_start,
        authors_note_end |-> parts.authors_note_end]
\* The name the loop gives a URL whose file name is `extracted`: prefixed
\* with the integer when the name is already taken.
DisambiguatedName(extracted, taken, integer) ==
    IF extracted \in taken
    THEN FileName(<< integer >> \o extracted.prefix, extracted.name)
    ELSE extracted

\* The image loop of write: `order` is the order in which the HashSet of
\* URLs is iterated, `ok` the URLs whose download succeeds.  The result is,
\* per URL that has a file name, the name it was given and whether the
\* image was written.
ImageLoop(order, ok) ==
    LET Step[n \in 0..Len(order)] ==
            IF n = 0
            THEN [image_filenames |-> {}, disambiguation_integer |-> 0, out |-> << >>]
            ELSE LET s == Step[n - 1]
                     u == order[n]
                     extracted == extract_file_name(u)
                 IN IF extracted = None THEN s
                    ELSE LET collides == extracted[1] \in s.image_filenames
                             filename == DisambiguatedName(extracted[1], s.image_filenames,
                                                           s.disambiguation_integer)
                         IN [image_filenames |->
                                 IF u \in ok THEN s.image_filenames \cup {filename}
                                 ELSE s.image_filenames,
                             disambiguation_integer |->
                                 IF collides THEN s.disambiguation_integer + 1
                                 ELSE s.disambiguation_integer,
                             out |-> Append(s.out, [url |-> u, filename |-> filename,
                                                    written |-> u \in ok])]
    IN Step[Len(order)].out

\* The orders in which a set can be iterated.
Orders(S) ==
    { o \in [1..Cardinality(S) -> S] : \A i, j \in 1..Cardinality(S) : i # j => o[i] # o[j] }

\* The URLs write collects: the cover and every src of the chapters.
ImagesOf(book) ==
    {book.cover_url} \cup
    UNION { extract_urls_from_html(book.chapters[i].content)
              \cup extract_urls_from_html(book.chapters[i].authors_note_start)
              \cup extract_urls_from_html(book.chapters[i].authors_note_end) :
            i \in 1..Len(book.chapters) }

\* One entry of the archive.  The data of an image entry is told by the URL
\* whose image it is.
Entry(name, id, method, data) ==
    [name |-> name, id |-> id, method |-> method, data |-> data]

\* The compression method write gives every entry.
options == "Deflated"

\* content_opf: the metadata and the spine of the package document.
content_opf(book) ==
    [identifier |-> Some(book.id),
     source |-> Some(book.url),
     title |-> book.title,
     spine |-> << "title" >> \o [i \in 1..Len(book.chapters) |-> book.chapters[i].identifier]]

\* epub::write: the entries in the order they are started, and the package.
write(book, order, ok) ==
    LET images == ImageLoop(order, ok)
        stored == SelectSeq(images, LAMBDA i : i.written)
    IN [entries |->
            << Entry("mimetype", "", options, "application/epub+zip"),
               Entry("META-INF/", "", options, ""),
               Entry("META-INF/container.xml", "", options, ""),
               Entry("OEBPS/toc.ncx", "", options, ""),
               Entry("OEBPS/nav.xhtml", "", options, "") >>
            \o [i \in 1..Len(book.chapters) |->
                    Entry("OEBPS/text/{}.xhtml", book.chapters[i].identifier, options,
                          chapter_html(book.chapters[i]))]
            \o [i \in 1..Len(stored) |->
                    Entry("OEBPS/images/{}", stored[i].filename, options,
                          stored[i].url)]
            \o << Entry("OEBPS/text/title.xhtml", "", options, ""),
                  Entry("OEBPS/content.opf", "", options, ""),
                  Entry("OEBPS/styles/stylesheet.css", "", options, "") >>,
        package |-> content_opf(book)]

\* EpubDoc::get_current_str: the document of the spine item `id`.
DocumentOf(epub, id) ==
    LET found == { i \in 1..Len(epub.entries) :
                     /\ epub.entries[i].name = "OEBPS/text/{}.xhtml"
                     /\ epub.entries[i].id = id }
    IN epub.entries[CHOOSE i \in found : TRUE].data

\* Book::from_path: the metadata of the package, then one chapter per spine
\* item behind the first (go_next moves off the first before it is read),
\* "nav" excepted.
book_from_path(epub, uuid, now) ==
    LET items == SelectSeq(Tail(epub.package.spine), LAMBDA id : id # "nav")
    IN [id |-> IF epub.package.identifier # None THEN epub.package.identifier[1] ELSE uuid,
        url |-> IF epub.package.source # None THEN epub.package.source[1] ELSE << >>,
        title |-> epub.package.title,
        cover_url |-> EmptyUrl,
        chapters |-> [i \in 1..Len(items) |->
                         extract_from_xhtml(items[i], DocumentOf(epub, items[i]), now)]]
\* The archives of the foreign generator (FanFicFare) that the parse path
\* accepts: its own dc:identifier or none, a chapter document without the
\* native generator <meta>, the chapter title in an <h3>, one author's note.
ForeignDocument(id, generator) ==
    [title |-> TitleOf(id),
     generator |-> generator,
     chapterurl |-> ChapterUrlOf(id),
     published |-> << >>,
     body |-> << "<h3 class=\"fff_chapter_title\">", TitleOf(id), "</h3>", "<p>", "txt", "</p>",
                 "<div class=\"author-note-portlet\">", "note", "</div>" >>]

ForeignArchives ==
    { [entries |-> << Entry("mimetype", "", "Stored", "application/epub+zip"),
                      Entry("META-INF/container.xml", "", options, ""),
                      Entry("OEBPS/content.opf", "", options, ""),
                      Entry("OEBPS/text/{}.xhtml", "file0001", options,
                            ForeignDocument("11", generator)) >>,
       package |-> [identifier |-> identifier, source |-> Some(BookUrl), title |-> "Book",
                    spine |-> << "title_page", "file0001" >>]] :
        identifier \in {None, Some("fanficfare-uid:royalroad-42")},
        generator \in {"", "FanFicFare"} }

\* Either a book was fetched and is about to be written, or an archive of
\* the foreign generator is about to be read.
EpubInit ==
    /\ rounds = 0
    /\ written_book = << >>
    /\ \/ /\ epc = "book"
          /\ ebook \in EpubBooks
          /\ epub_file = << >>
       \/ /\ epc = "file"
          /\ ebook = << >>
          /\ epub_file \in ForeignArchives

\* epub::write(book): the images are visited in the order of the HashSet,
\* each download succeeds or fails.
WriteBook ==
    /\ UNCHANGED notEpubVars
    /\ epc = "book"
    /\ rounds < MaxRounds
    /\ \E order \in Orders(ImagesOf(ebook)) : \E ok \in SUBSET ImagesOf(ebook) :
          epub_file' = write(ebook, order, ok)
    /\ written_book' = ebook
    /\ rounds' = rounds + 1
    /\ epc' = "file"
    /\ UNCHANGED ebook

\* Book::from_path(path) on the archive.
ReadBook ==
    /\ UNCHANGED notEpubVars
    /\ epc = "file"
    /\ \E uuid \in Uuids : \E now \in EpubDates :
          ebook' = book_from_path(epub_file, uuid, now)
    /\ epc' = "book"
    /\ UNCHANGED << epub_file, rounds, written_book >>

InitEpub ==
    /\ SyncInit
    /\ remote = << >>
    /\ current_in = None
    /\ caller = "update"
    /\ FetchInit
    /\ DriverIdle
    /\ CleanIdle
    /\ EpubInit
    /\ ImagesIdle
    /\ ResizeIdle
    /\ PassIdle
    /\ OwnerIdle

NextEpub ==
    \/ WriteBook
    \/ ReadBook

SpecEpub == InitEpub /\ [][NextEpub]_vars

\* The chapter documents of an archive, in entry order.
ChapterEntries(epub) == SelectSeq(epub.entries, LAMBDA e : e.name = "OEBPS/text/{}.xhtml")

(***************************************************************************)
(* C13.  Reading the archive that write produced for a book with content   *)
(* in all chapters gives the same chapter identifiers, titles and dates,   *)
(* and as content of each chapter the sanitized content that was written;  *)
(* a second write and read gives the same chapters again.                  *)
(***************************************************************************)
C13_RoundTrip ==
    (/\ epc = "book"
     /\ rounds >= 1
     /\ \A i \in 1..Len(written_book.chapters) : written_book.chapters[i].content # None)
    => /\ Len(ebook.chapters) = Len(written_book.chapters)
       /\ \A i \in 1..Len(written_book.chapters) :
             LET w == written_book.chapters[i]
                 r == ebook.chapters[i]
             IN /\ r.identifier = w.identifier
                /\ r.title = w.title
                /\ r.date_published = w.date_published
                /\ r.content = Some(replace_url_with_path(clean_html(w.content[1])))
                /\ rounds >= 2 => r.content = w.content

(***************************************************************************)
(* C14.  Every chapter document that write puts into the archive carries   *)
(* the generator marker the parser tests, so that the native extraction    *)
(* is chosen for it.                                                       *)
(***************************************************************************)
C14_WrittenMarkerIsNative ==
    (epc = "file" /\ rounds >= 1)
    => \A i \in 1..Len(ChapterEntries(epub_file)) :
          was_generated_with_native_updater(ChapterEntries(epub_file)[i].data)

\* The place the write contract gives an entry; the directory entry
\* META-INF/ is not in the contract and goes with container.xml.
ContractRank(name) ==
    CASE name = "mimetype" -> 1
      [] name \in {"META-INF/", "META-INF/container.xml"} -> 2
      [] name = "OEBPS/content.opf" -> 3
      [] name = "OEBPS/toc.ncx" -> 4
      [] name = "OEBPS/nav.xhtml" -> 5
      [] name = "OEBPS/text/{}.xhtml" -> 6
      [] name = "OEBPS/text/title.xhtml" -> 7
      [] name = "OEBPS/images/{}" -> 8
      [] OTHER -> 9

(***************************************************************************)
(* C15.  The entries of a written archive come in the order of the write   *)
(* contract: mimetype first, stored uncompressed and holding exactly       *)
(* application/epub+zip, then container.xml, content.opf, toc.ncx,         *)
(* nav.xhtml, the chapters in chapter order, the title page, the images,   *)
(* the stylesheet.                                                         *)
(***************************************************************************)
C15_EntryOrder ==
    (epc = "file" /\ rounds >= 1)
    => LET e == epub_file.entries
       IN /\ e[1].name = "mimetype"
          /\ e[1].method = "Stored"
          /\ e[1].data = "application/epub+zip"
          /\ \A i, j \in 1..Len(e) : i < j => ContractRank(e[i].name) <= ContractRank(e[j].name)
          /\ \A i \in 1..Len(written_book.chapters) :
                ChapterEntries(epub_file)[i].id = written_book.chapters[i].identifier

(***************************************************************************)
(* C20.  The id of a Book whose source URL is known is the one             *)
(* get_id_from_url derives from that URL, whether the Book was fetched or  *)
(* parsed from an archive: it is never a random one.                       *)
(***************************************************************************)
C20_IdFromUrl ==
    (epc = "book" /\ ebook.url # << >>)
    => \A uuid \in Uuids : ebook.id = get_id_from_url(ebook.url, uuid)

(***************************************************************************)
(* The images of a book: the image loop of write, one URL per step, with   *)
(* Book::download_image and the cache of inline images.                    *)
(*                                                                         *)
(* A blob is named after the URL it was fetched from and says whether it   *)
(* went through image::resize.  The cache of one book is the set of its    *)
(* files: a file name and a blob.                                          *)
(***************************************************************************)
ImagePool ==
    { ImageUrl("https://h/a", FileName(<< >>, "cover.jpg")),
      ImageUrl("https://h/b", FileName(<< >>, "cover.jpg")),
      ImageUrl("https://h/c", FileName(<< >>, "cover.jpg")),
      ImageUrl("https://h/x", FileName(<< 0 >>, "cover.jpg")) }

Blob(u, resized) == [of |-> u, resized |-> resized]

\* Cache::read_inline_image: the blob stored under the file name, if any.
read_inline_image(c, filename) ==
    LET held == { e \in c : e.filename = filename }
    IN IF held = {} THEN None ELSE Some((CHOOSE e \in held : TRUE).blob)

\* Cache::write_inline_image: the file is created or overwritten.
write_inline_image(c, filename, blob) ==
    { e \in c : e.filename # filename } \cup { [filename |-> filename, blob |-> blob] }

\* Mutant: the image is fetched without looking into the cache.
download_image_Uncached(c, u, filename, read_ok, fetch_ok, resize_ok, store_ok) ==
    IF fetch_ok /\ resize_ok /\ store_ok
    THEN [returned |-> Some(Blob(u, TRUE)),
          cache |-> write_inline_image(c, filename, Blob(u, TRUE)),
          requested |-> TRUE, resized |-> TRUE, stored |-> TRUE]
    ELSE [returned |-> None, cache |-> c, requested |-> TRUE,
          resized |-> fetch_ok, stored |-> FALSE]

\* Book::download_image.  read_ok, fetch_ok, resize_ok, store_ok say whether
\* the cache read, request::get_bytes, image::resize and the cache write
\* succeed.  The result is the blob returned (None for an Err), the cache
\* afterwards, and which of the steps were taken.
download_image(c, u, filename, read_ok, fetch_ok, resize_ok, store_ok) ==
    LET cached == read_inline_image(c, filename)
        Outcome(blob, cache_after, req, rsz, sto) ==
            [returned |-> blob, cache |-> cache_after, requested |-> req,
             resized |-> rsz, stored |-> sto]
    IN IF ~read_ok THEN Outcome(None, c, FALSE, FALSE, FALSE)
       ELSE IF cached # None THEN Outcome(cached, c, FALSE, FALSE, FALSE)
       ELSE IF ~fetch_ok THEN Outcome(None, c, TRUE, FALSE, FALSE)
       ELSE IF ~resize_ok THEN Outcome(None, c, TRUE, TRUE, FALSE)
       ELSE IF ~store_ok THEN Outcome(None, c, TRUE, TRUE, FALSE)
       ELSE Outcome(Some(Blob(u, TRUE)), write_inline_image(c, filename, Blob(u, TRUE)),
                    TRUE, TRUE, TRUE)

\* A book whose images are about to be written: the URLs in the order they
\* occur in the book, a cache that is empty or holds the file that
\* Book::from_path copied from the archive.
ImagesInit ==
    /\ book_images \in { s \in UNION { [1..k -> ImagePool] : k \in 1..MaxImages } :
                           \A i, j \in 1..Len(s) : i # j => s[i] # s[j] }
    /\ pending = { book_images[i] : i \in 1..Len(book_images) }
    /\ image_filenames = {}
    /\ disambiguation_integer = 0
    /\ assigned = << >>
    /\ cache \in { {}, { [filename |-> FileName(<< >>, "cover.jpg"),
                          blob |-> Blob(EmptyUrl, FALSE)] } }
    /\ last_download = None
    /\ writes = 1

\* One turn of `for url in &images`: any URL not yet visited may be next.
VisitImage(u) ==
    /\ UNCHANGED notImageVars
    /\ u \in pending
    /\ pending' = pending \ {u}
    /\ LET filename == DisambiguatedName(extract_file_name(u)[1], image_filenames,
                                         disambiguation_integer)
       IN /\ disambiguation_integer' =
                IF extract_file_name(u)[1] \in image_filenames
                THEN (disambiguation_integer + 1) % (U16Max + 1)
                ELSE disambiguation_integer
          /\ \E read_ok, fetch_ok, resize_ok, store_ok \in BOOLEAN :
                LET d == download_image(cache, u, filename, read_ok, fetch_ok,
                                        resize_ok, store_ok)
                IN /\ cache' = d.cache
                   /\ last_download' =
                          Some([url |-> u, filename |-> filename,
                                cached |-> read_inline_image(cache, filename),
                                returned |-> d.returned, requested |-> d.requested,
                                resized |-> d.resized, stored |-> d.stored])
                   /\ image_filenames' =
                          IF d.returned # None THEN image_filenames \cup {filename}
                          ELSE image_filenames
                   /\ assigned' = Append(assigned, [url |-> u, filename |-> filename,
                                                    written |-> d.returned # None])
    /\ UNCHANGED << book_images, writes >>

\* The same book is written again, by a later run: the cache is kept.
WriteAgain ==
    /\ UNCHANGED notImageVars
    /\ pending = {}
    /\ writes < MaxWrites
    /\ writes' = writes + 1
    /\ pending' = { book_images[i] : i \in 1..Len(book_images) }
    /\ image_filenames' = {}
    /\ disambiguation_integer' = 0
    /\ assigned' = << >>
    /\ last_download' = None
    /\ UNCHANGED << book_images, cache >>

InitImages ==
    /\ SyncInit
    /\ remote = << >>
    /\ current_in = None
    /\ caller = "update"
    /\ FetchInit
    /\ DriverIdle
    /\ CleanIdle
    /\ EpubIdle
    /\ ImagesInit
    /\ ResizeIdle
    /\ PassIdle
    /\ OwnerIdle

NextImages ==
    \/ \E u \in ImagePool : VisitImage(u)
    \/ WriteAgain

SpecImages == InitImages /\ [][NextImages]_vars

\* The images written so far by the running loop.
WrittenImages == SelectSeq(assigned, LAMBDA a : a.written)

\* The place of a URL in the book.
FirstSeen(u) == CHOOSE i \in 1..Len(book_images) : book_images[i] = u

(***************************************************************************)
(* C16.  At the end of an image loop in which every image was obtained,    *)
(* the images have pairwise distinct file names; among the URLs with the   *)
(* same last path segment the one that comes first in the book has the     *)
(* unprefixed name and the later ones have integer prefixes that increase  *)
(* in the order of the book.                                               *)
(***************************************************************************)
C16_DistinctDeterministicNames ==
    (pending = {} /\ \A i \in 1..Len(assigned) : assigned[i].written)
    => /\ \A i, j \in 1..Len(WrittenImages) :
             i # j => WrittenImages[i].filename # WrittenImages[j].filename
       /\ \A i, j \in 1..Len(assigned) :
             (/\ extract_file_name(assigned[i].url) = extract_file_name(assigned[j].url)
              /\ FirstSeen(assigned[i].url) < FirstSeen(assigned[j].url))
             => /\ Len(assigned[j].filename.prefix) = Len(assigned[i].url.file.prefix) + 1
                /\ \/ assigned[i].filename = assigned[i].url.file
                   \/ /\ assigned[i].filename.prefix # assigned[i].url.file.prefix
                      /\ assigned[i].filename.prefix[1] < assigned[j].filename.prefix[1]

(***************************************************************************)
(* C19.  In every call of download_image: when the cache holds a blob      *)
(* under the file name, the call returns that blob, makes no request,      *)
(* resizes nothing and leaves the cache as it is; a request is made only   *)
(* when the cache holds nothing under the name; the cache changes only     *)
(* when the fetch and the resize succeeded, and then by the resized blob   *)
(* of the URL under that file name.                                        *)
(***************************************************************************)
C19_CacheHitTouchesNothing ==
    [][(\E u \in ImagePool : VisitImage(u))
       => LET d == last_download'[1]
              before == read_inline_image(cache, d.filename)
          IN /\ before # None
                => /\ d.returned \in {before, None}
                   /\ ~d.requested
                   /\ ~d.resized
                   /\ cache' = cache
             /\ d.requested => before = None
             /\ cache' # cache
                => /\ d.requested /\ d.resized
                   /\ d.returned = Some(Blob(d.url, TRUE))
                   /\ cache' = write_inline_image(cache, d.filename, d.returned[1])]_vars

\* C19: a second write of a book found in the cache the blob the first
\* write had fetched, resized and stored, and returned it.
C19_Witness ==
    /\ writes = 2
    /\ last_download # None
    /\ last_download[1].cached = Some(Blob(last_download[1].url, TRUE))
    /\ last_download[1].returned = last_download[1].cached
    /\ ~last_download[1].requested

(***************************************************************************)
(* image::resize.  An image is its format and its dimensions.              *)
(*                                                                         *)
(* DynamicImage::resize(nwidth, nheight, filter) of the image crate keeps  *)
(* the aspect ratio and scales the image, up or down, to the largest size  *)
(* that fits within nwidth x nheight: it returns the image as it is when   *)
(* the bounds are its dimensions, and otherwise multiplies both dimensions *)
(* by min(nwidth / width, nheight / height), rounds, and takes at least 1. *)
(***************************************************************************)
ImageFormats == {"Png", "Jpeg", "Webp", "Gif", "Svg", "Html"}
ImageDimensions == {1, 2, 3, 300, 599, 600, 601, 800, 801, 1200, 2400}

Image(format, w, h) == [format |-> format, width |-> w, height |-> h]

\* f64::round of the quotient a / b of two naturals, b > 0.
RoundDiv(a, b) == (2 * a + b) \div (2 * b)

Maximum(a, b) == IF a >= b THEN a ELSE b
Minimum(a, b) == IF a <= b THEN a ELSE b

\* resize_dimensions(width, height, nwidth, nheight, fill = false) of the
\* image crate: the ratios nwidth / width and nheight / height are compared
\* by cross-multiplication.
resize_dimensions(w, h, nwidth, nheight) ==
    IF nwidth * h <= nheight * w
    THEN << Maximum(RoundDiv(w * nwidth, w), 1), Maximum(RoundDiv(h * nwidth, w), 1) >>
    ELSE << Maximum(RoundDiv(w * nheight, h), 1), Maximum(RoundDiv(h * nheight, h), 1) >>

\* DynamicImage::resize.
dynamic_image_resize(w, h, nwidth, nheight) ==
    IF << nwidth, nheight >> = << w, h >> THEN << w, h >>
    ELSE resize_dimensions(w, h, nwidth, nheight)

\* ResizableImageFormat::rezise: image.resize(600, 600 * height / width),
\* PNG and WebP encoded as PNG, JPEG as JPEG.  The product is a u32; for
\* the heights of ImageDimensions it stays far below 2^32.
rezise(img) ==
    LET dims == dynamic_image_resize(img.width, img.height, ResizeWidth,
                                     (ResizeWidth * img.height) \div img.width)
    IN Image(IF img.format = "Jpeg" THEN "Jpeg" ELSE "Png", dims[1], dims[2])

\* image::resize: HTML is refused, GIF and SVG pass as they are, the other
\* formats are resized.
resize(img) ==
    CASE img.format = "Html" -> None
      [] img.format \in {"Gif", "Svg"} -> Some(img)
      [] OTHER -> Some(rezise(img))

ResizeInit ==
    /\ picture \in { Image(f, w, h) : f \in ImageFormats, w \in ImageDimensions,
                                       h \in ImageDimensions }
    /\ resized_picture = None
    /\ rpc = "fetched"

\* image::resize(image) on the bytes fetched.
Resize ==
    /\ UNCHANGED notResizeVars
    /\ rpc = "fetched"
    /\ resized_picture' = resize(picture)
    /\ rpc' = "done"
    /\ UNCHANGED picture

InitResize ==
    /\ SyncInit
    /\ remote = << >>
    /\ current_in = None
    /\ caller = "update"
    /\ FetchInit
    /\ DriverIdle
    /\ CleanIdle
    /\ EpubIdle
    /\ ImagesIdle
    /\ ResizeInit
    /\ PassIdle
    /\ OwnerIdle

NextResize == Resize

SpecResize == InitResize /\ [][NextResize]_vars

(***************************************************************************)
(* C18.  The result of resize for a PNG, JPEG or WebP image of width w and *)
(* height h has the width min(w, 600) and its height in the same ratio:    *)
(* an image at most 600 wide keeps its dimensions, a wider one gets the    *)
(* width 600 and the height h * 600 / w, rounded up or down.               *)
(***************************************************************************)
C18_WidthIsMinOf600 ==
    (rpc = "done" /\ picture.format \in {"Png", "Jpeg", "Webp"})
    => /\ resized_picture # None
       /\ resized_picture[1].width = Minimum(picture.width, ResizeWidth)
       /\ picture.width <= ResizeWidth => resized_picture[1].height = picture.height
       /\ picture.width > ResizeWidth
          => /\ resized_picture[1].height * picture.width
                    >= picture.height * ResizeWidth - picture.width
             /\ resized_picture[1].height * picture.width
                    <= picture.height * ResizeWidth + picture.width

(***************************************************************************)
(* The fetch layer with the sends of every request counted.                *)
(***************************************************************************)
InitRetry ==
    /\ SyncInit
    /\ remote = << >>
    /\ current_in = None
    /\ caller = "update"
    /\ FetchStart
    /\ attempts = [w \in Workers |-> 0]
    /\ DriverIdle
    /\ CleanIdle
    /\ OthersIdle

SpecRetry == InitRetry /\ [][NextFetch]_vars

\* The sends of one request that the retry limit allows when no other worker
\* touches the counter: one per value 0..MaxBounce + 1 of the counter.
RetryLimit == MaxBounce + 2

(***************************************************************************)
(* C23.  No request is sent more often than the retry limit allows,        *)
(* whatever the other workers do: a request that keeps receiving 429 ends  *)
(* after at most MaxBounce + 2 sends.                                      *)
(***************************************************************************)
C23_AttemptsBounded == \A w \in Workers : attempts[w] <= RetryLimit

(***************************************************************************)
(* C24.  The shared counter BOUNCE never exceeds MaxBounce + 1 = 11, and   *)
(* no backoff sleep is longer than 8 * 2^11 seconds.                       *)
(***************************************************************************)
C24_BounceAtMostEleven ==
    /\ BOUNCE <= MaxBounce + 1
    /\ \A w \in Workers : slept[w] <= backoff_secs(MaxBounce + 1)

(***************************************************************************)
(* C25.  A 429 received while the counter is b <= MaxBounce raises the     *)
(* counter to b + 1, and the retry that follows sleeps exactly 8 * 2^b     *)
(* seconds before it is sent: 8 seconds after the first 429.               *)
(***************************************************************************)
C25_RetrySleepsBackoffOfB ==
    [][\A w \in Workers :
          /\ (wpc[w] = "called" /\ wpc'[w] = "enter") => BOUNCE' = BOUNCE + 1
          /\ (wpc[w] = "enter" /\ wpc'[w] = "limiter" /\ attempts[w] >= 1)
             => slept'[w] = backoff_secs(bounce[w])]_vars

(***************************************************************************)
(* C26.  BOUNCE is one value for all workers and all hosts: a request      *)
(* that enters send_get_request_rec while BOUNCE is above 0, whichever     *)
(* worker runs it and whichever host it goes to, sleeps the backoff delay  *)
(* of that value before it is sent, and a request is sent only after its   *)
(* entry.                                                                  *)
(***************************************************************************)
C26_SharedBackoff ==
    [][\A w \in Workers :
          /\ (wpc[w] = "enter" /\ wpc'[w] = "limiter" /\ BOUNCE > 0)
             => slept'[w] = backoff_secs(BOUNCE) /\ slept'[w] > 0
          /\ wpc'[w] = "called" /\ wpc[w] # "called"
             => wpc[w] = "limiter" /\ slept'[w] = slept[w]]_vars

\* C26 witness: the only two requests begun are under way, one per host and
\* worker, a single 429 has been received by one of them, and both have slept
\* a backoff on entry: the request that did not receive the 429 was delayed
\* before its first send by the 429 of the other host.
C26_Witness ==
    \E w, v \in Workers :
        /\ w # v
        /\ started = 2
        /\ BOUNCE = 1
        /\ url[w] = "https://cdn.example/a.png"
        /\ url[v] = "https://www.royalroad.com/fiction/1"
        /\ wpc[w] \in {"limiter", "called"} /\ slept[w] > 0
        /\ wpc[v] \in {"limiter", "called"} /\ slept[v] > 0

(***************************************************************************)
(* The order of the chapters of the book a pass returns.                   *)
(***************************************************************************)
\* The position of the chapter of that identifier in a chapter list.
PositionOf(chapters, id) ==
    CHOOSE k \in 1..Len(chapters) : chapters[k].identifier = id

\* The chapters the caller's current book had when the pass began.
ChaptersBefore == IF current_in = None THEN << >> ELSE current_in[1].chapters

\* C28: in the book a pass returns, the chapters the current book already had
\* keep their relative order and all come before the newly added chapters,
\* and the newly added chapters are in the relative order of the remote index.
C28_OrderKept ==
    (pc \in {"returned", "done"} /\ result.status = "ok") =>
        LET cs == current_book.chapters
            old == IdsOf(ChaptersBefore)
        IN \A i, j \in 1..Len(cs) :
              i < j =>
                 /\ cs[j].identifier \in old => cs[i].identifier \in old
                 /\ (cs[i].identifier \in old /\ cs[j].identifier \in old) =>
                       PositionOf(ChaptersBefore, cs[i].identifier)
                          < PositionOf(ChaptersBefore, cs[j].identifier)
                 /\ (cs[i].identifier \notin old /\ cs[j].identifier \notin old) =>
                       PositionOf(remote, cs[i].identifier)
                          < PositionOf(remote, cs[j].identifier)

\* C28 witness: a pass returned a book with a chapter it already had and,
\* behind it, two newly added ones, out of a remote index that lists the known
\* chapter between the two new ones.
C28_Witness ==
    /\ pc = "done"
    /\ result.status = "ok"
    /\ Len(ChaptersBefore) = 1
    /\ Len(remote) = 3
    /\ Contains(ChaptersBefore, remote[2])
    /\ Len(current_book.chapters) = 3

(***************************************************************************)
(* update() on a RoyalRoad book, pass after pass over the same book file   *)
(* and the same remote index.                                              *)
(***************************************************************************)
\* chrono::Utc::now() of Book::from_path: later than every date the site
\* serves.
Now == 3

\* The chapter lists Book::from_path returns for an archive whose chapter
\* documents carry no `published` meta: every date is the time of parsing.
ForeignChapterLists(n) ==
    {[i \in 1..n |-> extract_from_epub(ids[i], Now, Some("old"))] :
        ids \in InjectiveIdSeqs(n)}

\* RoyalRoad::new: the latest pubDate of the RSS feed.  The feed lists the
\* chapters of the index, so it is the latest date of the index.
rss_last_time_published(index) == MaxDatePublished(index)

UpdateInputs ==
    { << r, c >> \in (UNION {RemoteChapterLists(n) : n \in 1..Cardinality(Ids)})
                 \X {Some([cover_url |-> "", chapters |-> cs]) :
                        cs \in UNION {CurrentChapterLists(n) \cup ForeignChapterLists(n) :
                                        n \in 1..Cardinality(Ids)}} :
        Len(r) + Len(c[1].chapters) <= MaxChapters }

InitUpdate ==
    /\ \E in \in UpdateInputs :
          /\ remote = in[1]
          /\ current_in = in[2]
    /\ caller = "update"
    /\ SyncStart
    /\ last_time_published = rss_last_time_published(remote)
    /\ pass = 1
    /\ FetchInit
    /\ DriverIdle
    /\ CleanIdle
    /\ EpubIdle
    /\ ImagesIdle
    /\ ResizeIdle
    /\ OwnerIdle

\* Whether every chapter fetch of the pass succeeded and delivered a content.
EveryFetchSucceeded == fetch_failed = {} /\ requested \subseteq delivered

\* The next run of update() on the same file: the pass before returned Ok with
\* every fetch successful, and the book it wrote, if it wrote one, is what
\* Book::from_path finds now.
NextPass ==
    /\ UNCHANGED << fetchVars, driverVars, cleanVars, epubVars, imageVars,
                    resizeVars, ownerVars >>
    /\ pc = "done"
    /\ pass < MaxPasses
    /\ final.status = "ok"
    /\ EveryFetchSucceeded
    /\ current_in' = IF IsSome(written) THEN written ELSE current_in
    /\ pass' = pass + 1
    /\ pc' = "start"
    /\ fetched_book' = NoBook
    /\ current_book' = NoBook
    /\ chapter_to_update_ids' = {}
    /\ nb_new_chapter' = 0
    /\ idx' = 1
    /\ result' = Pending
    /\ written' = None
    /\ final' = Pending
    /\ attempted' = {}
    /\ requested' = {}
    /\ fetch_failed' = {}
    /\ delivered' = {}
    /\ UNCHANGED << caller, remote, last_time_published >>

NextUpdate ==
    \/ FetchMetadata
    \/ DiffChapters
    \/ UpdateChapter
    \/ Finish
    \/ CallerReturn
    \/ NextPass

SpecUpdate == InitUpdate /\ [][NextUpdate]_vars

\* A chapter of the index whose identifier no chapter of the list has.
AbsentFrom(chapters, index) ==
    { i \in 1..Len(index) : ~Contains(chapters, index[i]) }

\* A chapter of the index dated later than its counterpart of the list.
LaterThanIn(chapters, index) ==
    { i \in 1..Len(index) :
        \E j \in 1..Len(chapters) :
            /\ chapters[j].identifier = index[i].identifier
            /\ index[i].date_published > chapters[j].date_published }

\* C21: update() returns UpToDate only when the remote index has no chapter
\* whose identifier is absent from the archive and no chapter dated later than
\* its archived counterpart, whatever the archive, one whose chapters carry
\* no published timestamp included.
C21_UpToDateOnlyWhenNothingNew ==
    (pc = "done" /\ final = Ok(UpToDate)) =>
        /\ AbsentFrom(ChaptersBefore, remote) = {}
        /\ LaterThanIn(ChaptersBefore, remote) = {}

\* C22: after a pass in which every fetch succeeded and whose book became the
\* current one, a second pass against the same remote index returns UpToDate.
C22_SecondPassUpToDate ==
    (pass = 2 /\ pc = "done" /\ final.status = "ok") => final.update = UpToDate

(***************************************************************************)
(* The chapter documents of books whose chapters hold a known boilerplate  *)
(* message, in the content or in an author's note.                         *)
(***************************************************************************)
MessageFragments ==
    { << "txt" >>, << Boilerplate, "txt" >>, << "<p class=\"c\">", "txt", "</p>", Boilerplate >> }

MessageChapters ==
    { EpubChapter(id, 1, c, ns, ne) :
        id \in {"11", "12"},
        c \in {None} \cup { Some(x) : x \in MessageFragments },
        ns \in {None} \cup { Some(x) : x \in MessageFragments },
        ne \in {None} \cup { Some(x) : x \in MessageFragments } }

MessageBooks ==
    { [id |-> get_id_from_url(BookUrl, "uuid-a"), url |-> BookUrl,
       title |-> "Book", cover_url |-> CoverUrl, chapters |-> cs] :
        cs \in { s \in UNION { [1..k -> MessageChapters] : k \in 1..MaxEpubChapters } :
                   \A i, j \in 1..Len(s) : i # j => s[i].identifier # s[j].identifier } }

InitMessages ==
    /\ SyncInit
    /\ remote = << >>
    /\ current_in = None
    /\ caller = "update"
    /\ FetchInit
    /\ DriverIdle
    /\ CleanIdle
    /\ rounds = 0
    /\ written_book = << >>
    /\ epc = "book"
    /\ ebook \in MessageBooks
    /\ epub_file = << >>
    /\ ImagesIdle
    /\ ResizeIdle
    /\ PassIdle
    /\ OwnerIdle

SpecMessages == InitMessages /\ [][NextEpub]_vars

\* What the document written for a chapter holds for each of its three
\* fields: the inner HTML of the field's <div>.
WrittenFields(xhtml) ==
    [content |-> get_inner_html_of(xhtml.body, "<div class=\"chapter-content\">"),
     authors_note_start |->
        get_inner_html_of(xhtml.body, "<div class=\"authors-note-start\">"),
     authors_note_end |->
        get_inner_html_of(xhtml.body, "<div class=\"authors-note-end\">")]

FieldNames == {"content", "authors_note_start", "authors_note_end"}

\* C29: the same sanitizing transform is applied to the content, to the
\* starting author's note and to the ending author's note of a chapter: two
\* fields holding the same HTML are written as the same HTML, and no written
\* field holds a known boilerplate line.
C29_SameTransformForNotes ==
    (epc = "file" /\ rounds = 1) =>
        \A i \in 1..Len(written_book.chapters) :
            LET chapter == written_book.chapters[i]
                fields == WrittenFields(ChapterEntries(epub_file)[i].data)
            IN /\ \A f, g \in FieldNames :
                    (chapter[f] # None /\ chapter[f] = chapter[g]) =>
                        fields[f] = fields[g]
               /\ \A f \in FieldNames :
                    fields[f] # None =>
                        \A k \in 1..Len(fields[f][1]) : fields[f][1][k] # Boilerplate

(***************************************************************************)
(* The image references of the chapter documents of books whose chapters   *)
(* show images, two of them at URLs with the same last path segment.       *)
(***************************************************************************)
ImageFragments ==
    { << "txt", "<img src=\"u\">" >>, << "txt", "<img src=\"b/u\">" >> }

ImageChapters ==
    { EpubChapter(id, 1, Some(c), ns, None) :
        id \in {"11", "12"},
        c \in ImageFragments,
        ns \in {None} \cup { Some(x) : x \in ImageFragments } }

ImageBooks ==
    { [id |-> get_id_from_url(BookUrl, "uuid-a"), url |-> BookUrl,
       title |-> "Book", cover_url |-> CoverUrl, chapters |-> cs] :
        cs \in { s \in UNION { [1..k -> ImageChapters] : k \in 1..MaxEpubChapters } :
                   \A i, j \in 1..Len(s) : i # j => s[i].identifier # s[j].identifier } }

InitReferences ==
    /\ SyncInit
    /\ remote = << >>
    /\ current_in = None
    /\ caller = "update"
    /\ FetchInit
    /\ DriverIdle
    /\ CleanIdle
    /\ rounds = 0
    /\ written_book = << >>
    /\ epc = "book"
    /\ ebook \in ImageBooks
    /\ epub_file = << >>
    /\ ImagesIdle
    /\ ResizeIdle
    /\ PassIdle
    /\ OwnerIdle

SpecReferences == InitReferences /\ [][NextEpub]_vars

\* The image entries of an archive.
ImageEntries(epub) == SelectSeq(epub.entries, LAMBDA e : e.name = "OEBPS/images/{}")

\* Whether the archive has the image of that URL, and whether the entry a
\* reference ../images/{name} points to holds the image of that URL.
HasImageOf(epub, u) ==
    \E k \in 1..Len(ImageEntries(epub)) : ImageEntries(epub)[k].data = u

PointsToImageOf(epub, ref, u) ==
    \E k \in 1..Len(ImageEntries(epub)) :
        /\ ImageEntries(epub)[k].id = ref.file
        /\ ImageEntries(epub)[k].data = u

\* C30: in a written archive every <img> reference of a chapter document
\* points to the archive entry that holds the image fetched for the URL the
\* reference had in the book, also when two distinct URLs of the book share
\* their last path segment.
C30_ReferencesResolve ==
    (epc = "file" /\ rounds = 1) =>
        \A i \in 1..Len(written_book.chapters) :
            LET chapter == written_book.chapters[i]
                fields == WrittenFields(ChapterEntries(epub_file)[i].data)
            IN \A f \in FieldNames :
                  chapter[f] # None =>
                     \A k \in 1..Len(chapter[f][1]) :
                        LET original == ImgSrc(chapter[f][1][k])
                        IN (original # None /\ HasImageOf(epub_file, original[1])) =>
                              /\ ImgSrc(fields[f][1][k]) # None
                              /\ PointsToImageOf(epub_file, ImgSrc(fields[f][1][k])[1],
                                                 original[1])

(***************************************************************************)
(* update_books: book_files.par_iter().for_each hands every book file to a *)
(* worker of the pool; the workers run source.update(path) at the same     *)
(* time.  Book::from_path copies the images of the archive to the cache    *)
(* directory of the book id it read from the archive, epub::write reads    *)
(* and writes the same directory through Book::download_image.             *)
(***************************************************************************)
\* The dc:identifier of a book file: two files can be copies of one book.
BookIds == {"42", "43"}

\* The file names of the image resources of an archive.
ArchiveImageSets == { {}, {"cover.jpg"} }

\* The positions of a worker in which it is reading or writing the cache
\* directory of its book: inside Book::from_path and inside epub::write.
InCache == {"from_path", "write"}

OwnerInit ==
    /\ file_ids \in [Books -> BookIds]
    /\ archive_images \in [Books -> ArchiveImageSets]
    /\ upc = [b \in Books |-> "todo"]
    /\ cache_dir = [id \in BookIds |-> {}]

\* A worker takes the file and enters Book::from_path.
TakeFile(b) ==
    /\ UNCHANGED notOwnerVars
    /\ upc[b] = "todo"
    /\ upc' = [upc EXCEPT ![b] = "from_path"]
    /\ UNCHANGED << file_ids, archive_images, cache_dir >>

\* Book::from_path: Cache::write_inline_image for every image of the archive.
WriteArchiveImages(b) ==
    /\ UNCHANGED notOwnerVars
    /\ upc[b] = "from_path"
    /\ cache_dir' = [cache_dir EXCEPT ![file_ids[b]] = @ \cup archive_images[b]]
    /\ upc' = [upc EXCEPT ![b] = "get_book"]
    /\ UNCHANGED << file_ids, archive_images >>

\* update() after get_book: the book is written when the result is Updated.
AfterGetBook(b) ==
    /\ UNCHANGED notOwnerVars
    /\ upc[b] = "get_book"
    /\ \E updated \in BOOLEAN :
          upc' = [upc EXCEPT ![b] = IF updated THEN "write" ELSE "done"]
    /\ UNCHANGED << file_ids, archive_images, cache_dir >>

\* epub::write: Book::download_image reads the cache and, for an image it
\* had to fetch, writes it.
DownloadImages(b) ==
    /\ UNCHANGED notOwnerVars
    /\ upc[b] = "write"
    /\ \E fetch_ok \in BOOLEAN :
          cache_dir' = [cache_dir EXCEPT ![file_ids[b]] =
                            IF "u" \in @ \/ ~fetch_ok THEN @ ELSE @ \cup {"u"}]
    /\ upc' = [upc EXCEPT ![b] = "done"]
    /\ UNCHANGED << file_ids, archive_images >>

InitOwner ==
    /\ SyncInit
    /\ remote = << >>
    /\ current_in = None
    /\ caller = "update"
    /\ FetchInit
    /\ DriverIdle
    /\ CleanIdle
    /\ EpubIdle
    /\ ImagesIdle
    /\ ResizeIdle
    /\ PassIdle
    /\ OwnerInit

NextOwner ==
    \E b \in Books :
        \/ TakeFile(b)
        \/ WriteArchiveImages(b)
        \/ AfterGetBook(b)
        \/ DownloadImages(b)

SpecOwner == InitOwner /\ [][NextOwner]_vars

\* C27: whatever the list of book files, at no time are two workers reading
\* or writing the cache directory of the same book id.
C27_OneWorkerPerBookId ==
    \A b, c \in Books :
        (b # c /\ file_ids[b] = file_ids[c]) =>
            ~(upc[b] \in InCache /\ upc[c] \in InCache)
=============================================================================
